---- MODULE Spec2Model ----
(***************************************************************************)
(* A model of span-cli's agent execution engine: the turn loop of          *)
(* span/core/agent.py, the patch tool of span/tools/file_ops.py (diff       *)
(* validation, reverse-diff generation, application through the `patch`    *)
(* utility) and the staged verifier of span/core/verifier.py.               *)
(*                                                                         *)
(* Text is modelled line by line.  A file is a sequence of line tokens,    *)
(* every line newline-terminated.  A diff is a sequence of diff lines and  *)
(* a flag telling whether its text ends with a newline; a diff line is a   *)
(* record [c, s, h]: c is the class of its first character(s), s the rest  *)
(* of the line, h the four numbers of a hunk header.                       *)
(*                                                                         *)
(* Spec is a session of the agent from its planning to finalization.       *)
(* SpecWithFailingPatches is the same session with the model sending       *)
(* diffs that fail to apply and tool calls that fail, and                  *)
(* FairSpecWithFailingPatches that session run to its end.  ToolSpec is one *)
(* call of a tool made on its own: ApplyPatchTool.execute on each diff of  *)
(* DiffInputs and RunShellTool.execute (span/tools/shell.py) on each       *)
(* command of ShellInputs.  RepoSpec is the dependency index of            *)
(* span/context/repo_map.py, StreamSpec the event log of                   *)
(* span/events/stream.py, each used on its own, and VerifySpec one         *)
(* verify_patch of a session started with or without --full.               *)
(***************************************************************************)
EXTENDS Integers, Sequences, FiniteSets, TLC

\* ------------------------------------------------------------------ bounds
\* AgentLimits (agent.py:33-37), scaled down.
max_turns == 3
max_tool_calls == 6
max_patch_attempts == 5
max_retries_per_patch == 2
\* The most tool-use blocks one assistant response carries.
MaxCallsPerResponse == 3

\* ------------------------------------------------------------ small helpers
Max(a, b) == IF a >= b THEN a ELSE b
Min(a, b) == IF a <= b THEN a ELSE b

\* s[lo..hi], empty when hi < lo (Python slice s[lo-1:hi]).
Slice(s, lo, hi) == IF hi < lo THEN <<>> ELSE SubSeq(s, lo, hi)

NoHdr == <<0, 0, 0, 0>>

\* Diff-line constructors.
Hdr(os, ol, ns, nl) == [c |-> "@", s |-> "", h |-> <<os, ol, ns, nl>>]
Ctx(t) == [c |-> " ", s |-> t, h |-> NoHdr]
Add(t) == [c |-> "+", s |-> t, h |-> NoHdr]
Del(t) == [c |-> "-", s |-> t, h |-> NoHdr]
\* An added line whose text t starts with "++" and a deleted line whose text
\* starts with "--" (the lines start with "+++" and "---", no space after
\* them), an empty line, a "\\ No newline" marker, a line starting with "diff", and a line t starting with any
\* character other than those.
AddPlus(t) == [c |-> "+++", s |-> t, h |-> NoHdr]
DelMinus(t) == [c |-> "---", s |-> t, h |-> NoHdr]
EmptyLine == [c |-> "", s |-> "", h |-> NoHdr]
Marker == [c |-> "\\", s |-> " No newline at end of file", h |-> NoHdr]
DiffLine(t) == [c |-> "diff", s |-> t, h |-> NoHdr]
Junk(t) == [c |-> "other", s |-> t, h |-> NoHdr]

\* The value standing for Python's None where a diff is expected.
NoDiff == [target |-> "<None>", lines |-> <<>>, nl |-> FALSE]

\* Line contents that match one of ApplyPatchTool.LAZY_PATTERNS.
LazyTexts == {"# TODO", "... rest of file", "... existing code", "... unchanged", "pass  # placeholder"}

\* ------------------------------------------------- ApplyPatchTool: validation

\* _extract_hunks: the hunks of a patch, each a sequence of diff lines
\* starting with its "@@" line.  A line starting with "---", "+++" or "diff"
\* closes the current hunk; lines outside a hunk are dropped.
RECURSIVE ExtractFrom(_, _, _, _, _)
ExtractFrom(lines, i, hunks, cur, in_hunk) ==
    IF i > Len(lines)
    THEN IF cur # <<>> THEN Append(hunks, cur) ELSE hunks
    ELSE LET l == lines[i] IN
         IF l.c = "@"
         THEN ExtractFrom(lines, i + 1,
                          IF cur # <<>> THEN Append(hunks, cur) ELSE hunks,
                          <<l>>, TRUE)
         ELSE IF in_hunk
              THEN IF l.c \in {"---", "+++", "diff"}
                   THEN ExtractFrom(lines, i + 1,
                                    IF cur # <<>> THEN Append(hunks, cur) ELSE hunks,
                                    <<>>, FALSE)
                   ELSE ExtractFrom(lines, i + 1, hunks, Append(cur, l), TRUE)
              ELSE ExtractFrom(lines, i + 1, hunks, cur, FALSE)

_extract_hunks(lines) == ExtractFrom(lines, 1, <<>>, <<>>, FALSE)

\* _is_well_formed_hunk: the first line is a "@@" line and every other
\* non-empty line starts with space, +, - or backslash.
is_well_formed_hunk_prefixes_unchecked(hunk) ==
    /\ Len(hunk) >= 1
    /\ hunk[1].c = "@"

_is_well_formed_hunk(hunk) ==
    /\ Len(hunk) >= 1
    /\ hunk[1].c = "@"
    /\ \A i \in 2..Len(hunk) : hunk[i].c \in {"", " ", "+", "-", "\\", "---", "+++"}

\* The counting loop of _has_sufficient_context over the lines after the
\* header: <<context_before, context_after, has_deletions>>.
RECURSIVE CountContext(_, _, _, _, _, _)
CountContext(hunk, i, before, after, seen, dels) ==
    IF i > Len(hunk)
    THEN <<before, after, dels>>
    ELSE LET c == hunk[i].c IN
         IF c = " "
         THEN IF ~seen
              THEN CountContext(hunk, i + 1, before + 1, after, seen, dels)
              ELSE CountContext(hunk, i + 1, before, after + 1, seen, dels)
         ELSE IF c \in {"-", "---"}
              THEN CountContext(hunk, i + 1, before, 0, TRUE, TRUE)
              ELSE IF c \in {"+", "+++"}
                   THEN CountContext(hunk, i + 1, before, 0, TRUE, dels)
                   ELSE CountContext(hunk, i + 1, before, after, seen, dels)

\* "-0,0" in hunk_header: the header names an empty old range.
IsCreationHeader(l) == l.c = "@" /\ l.h[1] = 0 /\ l.h[2] = 0

_has_sufficient_context(hunk) ==
    IF IsCreationHeader(hunk[1])
    THEN TRUE
    ELSE LET n == CountContext(hunk, 2, 0, 0, FALSE, FALSE) IN
         \/ n[1] >= 3
         \/ n[2] >= 3
         \/ (~n[3] /\ n[1] >= 1)

\* _validate_patch_with_reason: "ok" (None) or the rejection reason.
_validate_patch_with_reason(lines) ==
    IF \E i \in 1..Len(lines) : lines[i].s \in LazyTexts
    THEN "contains lazy placeholder pattern"
    ELSE IF ~\E i \in 1..Len(lines) : lines[i].c = "@"
    THEN "missing @@ hunk header"
    ELSE LET hunks == _extract_hunks(lines) IN
         IF hunks = <<>>
         THEN "no valid hunks found"
         ELSE IF \E k \in 1..Len(hunks) :
                    /\ ~_is_well_formed_hunk(hunks[k])
                    /\ \A j \in 1..(k - 1) : /\ _is_well_formed_hunk(hunks[j])
                                             /\ _has_sufficient_context(hunks[j])
         THEN "lines must start with space, +, or -"
         ELSE IF \E k \in 1..Len(hunks) : ~_has_sufficient_context(hunks[k])
         THEN "insufficient context lines"
         ELSE "ok"

\* ------------------------------------------ ApplyPatchTool: the reverse diff

RECURSIVE ReverseLines(_, _)
ReverseLines(lines, i) ==
    IF i > Len(lines)
    THEN <<>>
    ELSE LET l == lines[i]
             rest == ReverseLines(lines, i + 1) IN
         IF l.c = "@" THEN <<l>> \o rest
         ELSE IF l.c \in {"+", "+++"} THEN <<[l EXCEPT !.c = "-"]>> \o rest
         ELSE IF l.c \in {"-", "---"} THEN <<[l EXCEPT !.c = "+"]>> \o rest
         ELSE IF l.c = " " THEN <<l>> \o rest
         ELSE rest

\* _generate_reverse_diff: None when the file does not exist; otherwise the
\* two file headers, every "@@" line as it is, every +/- line with its
\* prefix swapped, every context line; joined without a final newline.
_generate_reverse_diff(path, exists, lines) ==
    IF ~exists
    THEN NoDiff
    ELSE [target |-> path, lines |-> ReverseLines(lines, 1), nl |-> FALSE]

\* ------------------------------------------------------- the patch utility
\* What `patch -p0` (GNU patch 2.7.6) does with one file and the unified
\* hunks given to it on standard input by ApplyPatchTool.execute.  Its prompts
\* read an exhausted standard input and take their default answer.

\* The content of an empty line.
BLANK == ""
\* patch's default maximum fuzz factor.
MaxFuzz == 2

Fatal == [st |-> "malformed", next |-> 0, body |-> <<>>]

\* The line after the last old or the last new line of a hunk (last) is
\* looked at: a "\" marker there belongs to that line and is passed over.
SkipMarker(lines, i, last) ==
    IF last /\ i <= Len(lines) /\ lines[i].c = "\\" THEN i + 1 ELSE i

\* Reading the body of one hunk: lines are consumed until the old and new
\* line counts of the header are used up.  At the end of the patch text a
\* hunk that lacks at most three lines is completed with blank context lines.
\* A line the counts leave no room for makes the patch malformed, and so does
\* a "\" marker anywhere else than after a last line.
RECURSIVE ReadBody(_, _, _, _, _)
ReadBody(lines, i, ro, rn, body) ==
    IF ro = 0 /\ rn = 0
    THEN [st |-> "ok", next |-> i, body |-> body]
    ELSE LET eof == i > Len(lines) IN
         IF eof /\ rn > 3
         THEN Fatal
         ELSE LET l == IF eof THEN Ctx(BLANK) ELSE lines[i]
                  ni == IF eof THEN i ELSE i + 1 IN
              IF l.c \in {" ", ""}
              THEN IF ro = 0 \/ rn = 0
                   THEN Fatal
                   ELSE ReadBody(lines,
                                 SkipMarker(lines, SkipMarker(lines, ni, ro = 1), rn = 1),
                                 ro - 1, rn - 1, Append(body, Ctx(l.s)))
              ELSE IF l.c \in {"-", "---"}
              THEN IF ro = 0 THEN Fatal
                   ELSE ReadBody(lines, SkipMarker(lines, ni, ro = 1),
                                 ro - 1, rn, Append(body, Del(l.s)))
              ELSE IF l.c \in {"+", "+++"}
              THEN IF rn = 0 THEN Fatal
                   ELSE ReadBody(lines, SkipMarker(lines, ni, rn = 1),
                                 ro, rn - 1, Append(body, Add(l.s)))
              ELSE Fatal

\* The hunks of a patch text, and whether a malformed hunk ended the reading.
\* A hunk without any change is malformed.  After a hunk, a line that starts
\* no further hunk ends the patch.
RECURSIVE ParseFrom(_, _, _)
ParseFrom(lines, i, hunks) ==
    IF i > Len(lines)
    THEN [st |-> "ok", hunks |-> hunks]
    ELSE LET l == lines[i] IN
         IF l.c # "@"
         THEN IF hunks # <<>>
              THEN [st |-> "ok", hunks |-> hunks]
              ELSE ParseFrom(lines, i + 1, hunks)
         ELSE LET r == ReadBody(lines, i + 1, l.h[2], l.h[4], <<>>) IN
              IF r.st # "ok" \/ \A k \in 1..Len(r.body) : r.body[k].c = " "
              THEN [st |-> "malformed", hunks |-> hunks]
              ELSE ParseFrom(lines, r.next,
                             Append(hunks, [h |-> l.h, body |-> r.body]))

\* A patch text that does not end with a newline loses its last line
\* ("patch unexpectedly ends in middle of line").
PatchLines(d) == IF d.nl THEN d.lines ELSE Slice(d.lines, 1, Len(d.lines) - 1)

RECURSIVE SelectLines(_, _)
SelectLines(body, cs) ==
    IF body = <<>> THEN <<>>
    ELSE (IF Head(body).c \in cs THEN <<Head(body).s>> ELSE <<>>)
         \o SelectLines(Tail(body), cs)

OldLines(body) == SelectLines(body, {" ", "-"})
NewLines(body) == SelectLines(body, {" ", "+"})

RECURSIVE PrefixContext(_)
PrefixContext(body) ==
    IF body = <<>> \/ Head(body).c # " " THEN 0 ELSE 1 + PrefixContext(Tail(body))

RECURSIVE SuffixContext(_)
SuffixContext(body) ==
    IF body = <<>> \/ body[Len(body)].c # " " THEN 0
    ELSE 1 + SuffixContext(Slice(body, 1, Len(body) - 1))

\* patch_match: the pattern, less pf leading and sf trailing lines, equals
\* the input lines from line `where` on.
PatchMatch(inp, where, old, pf, sf) ==
    \A k \in pf..(Len(old) - sf - 1) :
        /\ where + k >= 1
        /\ where + k <= Len(inp)
        /\ inp[where + k] = old[k + 1]

NotFound == <<0, 0, 0>>

\* The offset scan of locate_hunk: offset 0, then +1, -1, +2, -2, ...
RECURSIVE ScanOffsets(_, _, _, _, _, _, _, _, _)
ScanOffsets(inp, old, pf, sf, first_guess, off, max_off, max_pos, max_neg) ==
    IF off > max_off
    THEN NotFound
    ELSE IF off <= max_pos /\ PatchMatch(inp, first_guess + off, old, pf, sf)
    THEN <<first_guess + off, pf, sf>>
    ELSE IF 0 < off /\ off <= max_neg /\ PatchMatch(inp, first_guess - off, old, pf, sf)
    THEN <<first_guess - off, pf, sf>>
    ELSE ScanOffsets(inp, old, pf, sf, first_guess, off + 1, max_off, max_pos, max_neg)

\* locate_hunk(fuzz): <<where, prefix_fuzz, suffix_fuzz>>, or NotFound.  A
\* hunk with less leading than trailing context can only match the start of
\* the file (when its header says line 1), one with less trailing than
\* leading context only the end of the file.
LocateHunk(inp, frozen, in_offset, pfirst, old, pre, suf, fuzz) ==
    LET n == Len(inp)
        first_guess == pfirst + in_offset
        pat == Len(old)
        context == Max(pre, suf)
        pf0 == fuzz + pre - context
        sf0 == fuzz + suf - context
        max_where == n - (pat - sf0) + 1
        min_where == frozen + 1 - (pre - pf0)
        max_pos == max_where - first_guess
        max_neg0 == first_guess - min_where
        max_off == Max(max_pos, max_neg0)
        max_neg == IF first_guess <= max_neg0 THEN first_guess - 1 ELSE max_neg0
    IN  IF pat = 0
        THEN <<first_guess, 0, 0>>
        ELSE IF pf0 < 0 /\ pfirst <= 1
        THEN IF sf0 < 0 /\ (pat # n \/ pre < frozen)
             THEN NotFound
             ELSE IF /\ frozen <= pre
                     /\ 1 - first_guess <= max_pos
                     /\ PatchMatch(inp, 1, old, 0, Max(sf0, 0))
                  THEN <<1, 0, Max(sf0, 0)>>
                  ELSE NotFound
        ELSE LET pf == Max(pf0, 0) IN
             IF sf0 < 0
             THEN LET off == first_guess - (n - pat + 1) IN
                  IF off <= max_neg /\ PatchMatch(inp, first_guess - off, old, pf, 0)
                  THEN <<first_guess - off, pf, 0>>
                  ELSE NotFound
             ELSE LET min_off == IF max_pos < 0 THEN first_guess - max_where
                                 ELSE IF max_neg < 0 THEN min_where - first_guess
                                 ELSE 0
                  IN ScanOffsets(inp, old, pf, sf0, first_guess, min_off,
                                 max_off, max_pos, max_neg)

\* The first fuzz factor (0, 1, ..) at which the hunk is located.
RECURSIVE LocateWithFuzz(_, _, _, _, _, _, _, _, _)
LocateWithFuzz(inp, frozen, in_offset, pfirst, old, pre, suf, fuzz, maxfuzz) ==
    IF fuzz > maxfuzz
    THEN NotFound
    ELSE LET w == LocateHunk(inp, frozen, in_offset, pfirst, old, pre, suf, fuzz) IN
         IF w[1] # 0 THEN w
         ELSE LocateWithFuzz(inp, frozen, in_offset, pfirst, old, pre, suf,
                             fuzz + 1, maxfuzz)

\* On the first hunk, a fuzz factor at which the hunk is not found but its
\* reverse is makes patch ask "Reversed (or previously applied) patch
\* detected!  Assume -R? [n]"; the answer is no and the patch is skipped.
RECURSIVE ReversedDetected(_, _, _, _, _, _, _, _)
ReversedDetected(inp, pfirst, rfirst, old, new, pre, suf, fuzz) ==
    IF fuzz > Min(MaxFuzz, Max(pre, suf))
    THEN FALSE
    ELSE IF LocateHunk(inp, 0, 0, pfirst, old, pre, suf, fuzz)[1] # 0
    THEN FALSE
    ELSE IF LocateHunk(inp, 0, 0, rfirst, new, pre, suf, fuzz)[1] # 0
    THEN TRUE
    ELSE ReversedDetected(inp, pfirst, rfirst, old, new, pre, suf, fuzz + 1)

\* apply_hunk: the input is copied up to each change; a "-" line skips an
\* input line, a "+" line is written.  A change that lies before the lines
\* already copied is a misordered hunk, which fails.
RECURSIVE ApplyBody(_, _, _, _, _, _)
ApplyBody(inp, body, j, out, frozen, oldpos) ==
    IF j > Len(body)
    THEN [ok |-> TRUE, out |-> out, frozen |-> frozen]
    ELSE LET l == body[j] IN
         IF l.c = " "
         THEN ApplyBody(inp, body, j + 1, out, frozen, oldpos + 1)
         ELSE IF frozen > oldpos - 1
         THEN [ok |-> FALSE, out |-> out, frozen |-> frozen]
         ELSE LET copied == out \o Slice(inp, frozen + 1, oldpos - 1) IN
              IF l.c = "-"
              THEN ApplyBody(inp, body, j + 1, copied, oldpos, oldpos + 1)
              ELSE ApplyBody(inp, body, j + 1, Append(copied, l.s), oldpos - 1, oldpos)

\* The line the header of a hunk names: for an empty range, the line after.
FirstLine(start, count) == start + (IF count = 0 THEN 1 ELSE 0)

\* One hunk located at w = <<where, prefix_fuzz, suffix_fuzz>>, less the
\* context lines the fuzz gives up, and applied: r is what ApplyBody returns.
\* st = [out, frozen, in_offset, failed].
HunkApplied(hk, st, w, r) ==
    IF ~r.ok
    THEN [st EXCEPT !.failed = @ + 1, !.in_offset = w[1] - FirstLine(hk.h[1], hk.h[2])]
    ELSE [out |-> r.out, frozen |-> r.frozen,
          in_offset |-> w[1] - FirstLine(hk.h[1], hk.h[2]), failed |-> st.failed]

HunkLocated(inp, hk, st, w) ==
    IF w[1] = 0
    THEN [st EXCEPT !.failed = @ + 1]
    ELSE HunkApplied(hk, st, w,
                     ApplyBody(inp, Slice(hk.body, 1 + w[2], Len(hk.body) - w[3]), 1,
                               st.out, st.frozen, w[1] + w[2]))

LocateFor(inp, hk, st, old, pre, suf) ==
    LocateWithFuzz(inp, st.frozen, st.in_offset, FirstLine(hk.h[1], hk.h[2]),
                   old, pre, suf, 0, Min(MaxFuzz, Max(pre, suf)))

ApplyHunk(inp, hk, st) ==
    HunkLocated(inp, hk, st,
                LocateFor(inp, hk, st, OldLines(hk.body), PrefixContext(hk.body),
                          SuffixContext(hk.body)))

\* The hunks in turn.
RECURSIVE ApplyHunks(_, _, _, _)
ApplyHunks(inp, hunks, k, st) ==
    IF k > Len(hunks)
    THEN st
    ELSE ApplyHunks(inp, hunks, k + 1, ApplyHunk(inp, hunks[k], st))

\* The file as a record: ex (it exists) and ln (its lines).
File(ex, ln) == [ex |-> ex, ln |-> ln]
NoFile == File(FALSE, <<>>)

FirstHunkReversed(inp, h1) ==
    ReversedDetected(inp, FirstLine(h1.h[1], h1.h[2]), FirstLine(h1.h[3], h1.h[4]),
                     OldLines(h1.body), NewLines(h1.body),
                     PrefixContext(h1.body), SuffixContext(h1.body), 0)

\* What patch writes and reports once every hunk was tried: out is the
\* output file.
PatchWritten(f, failed, out) ==
    IF failed > 0
    THEN [ok |-> FALSE, file |-> IF f.ex \/ out # <<>> THEN File(TRUE, out) ELSE f]
    ELSE [ok |-> TRUE, file |-> File(TRUE, out)]

PatchHunksTried(f, st) ==
    PatchWritten(f, st.failed, st.out \o Slice(f.ln, st.frozen + 1, Len(f.ln)))

\* p is the parsed patch text.
PatchParsed(f, p) ==
    IF p.hunks = <<>>
    THEN [ok |-> FALSE, file |-> f]
    ELSE IF ~f.ex /\ p.hunks[1].h[2] # 0
    THEN [ok |-> FALSE, file |-> f]
    ELSE IF FirstHunkReversed(f.ln, p.hunks[1])
    THEN [ok |-> FALSE, file |-> f]
    ELSE IF p.st = "malformed"
    THEN [ok |-> FALSE, file |-> f]
    ELSE PatchHunksTried(f, ApplyHunks(f.ln, p.hunks, 1,
                                       [out |-> <<>>, frozen |-> 0,
                                        in_offset |-> 0, failed |-> 0]))

\* `patch -p0` on file f with diff d: [ok, file].  ok is "exit status 0".
\* A malformed patch is fatal and writes nothing.  Otherwise every hunk that
\* is located is applied and the result is written even if other hunks
\* failed.
GnuPatch(f, d) == PatchParsed(f, ParseFrom(PatchLines(d), 1, <<>>))

\* ---------------------------------------------------- ApplyPatchTool.execute

\* The file a patch names: the tool's path when execute synthesizes the
\* "---"/"+++" headers, the headers' own path when the diff brings them.
PatchTarget(path, d) == IF d.target = "none" THEN path ELSE d.target

\* What execute returns once patch has run: rev is the reverse diff generated
\* beforehand, r what patch did to file tgt.
PatchRan(t, tgt, rev, r) ==
    [success |-> r.ok,
     reverse_diff |-> IF r.ok THEN rev ELSE NoDiff,
     fs |-> [t EXCEPT ![tgt] = r.file],
     ran |-> TRUE,
     reason |-> IF r.ok THEN "ok" ELSE "Patch failed"]

validation_not_enforced(path, d, t, reason) ==
    PatchRan(t, PatchTarget(path, d),
             _generate_reverse_diff(path, t[path].ex, d.lines),
             GnuPatch(t[PatchTarget(path, d)], d))

Validated(path, d, t, reason) ==
    IF reason # "ok"
    THEN [success |-> FALSE, reverse_diff |-> NoDiff, fs |-> t, ran |-> FALSE,
          reason |-> reason]
    ELSE PatchRan(t, PatchTarget(path, d),
                  _generate_reverse_diff(path, t[path].ex, d.lines),
                  GnuPatch(t[PatchTarget(path, d)], d))

\* execute(path, diff) on working tree t: [success, reverse_diff, fs, ran, reason].
\* Validation comes first; a rejected diff never reaches patch.  The
\* reverse diff is generated before patch runs and is returned only on
\* success.  fs is the working tree afterwards, ran tells whether the patch
\* subprocess was started.
execute(path, d, t) == Validated(path, d, t, _validate_patch_with_reason(d.lines))

\* ------------------------------------------------------------------ Verifier

\* A line ast.parse rejects.
BadSyntax == "x = ("

\* check_syntax: reads the file and parses it.
check_syntax(f) ==
    IF ~f.ex
    THEN [passed |-> FALSE, errors |-> <<"File not found">>]
    ELSE IF \E i \in 1..Len(f.ln) : f.ln[i] = BadSyntax
    THEN [passed |-> FALSE, errors |-> <<"Syntax error">>]
    ELSE [passed |-> TRUE, errors |-> <<>>]

\* check_lint and check_tests run external programs; lint_ok and tests_ok are
\* what those report (exit status 0 or not).
check_lint(lint_ok) ==
    IF lint_ok THEN [passed |-> TRUE, errors |-> <<>>]
    ELSE [passed |-> FALSE, errors |-> <<"Lint errors">>]

check_tests(tests_ok) ==
    IF tests_ok THEN [passed |-> TRUE, errors |-> <<>>]
    ELSE [passed |-> FALSE, errors |-> <<"Test failures">>]

\* verify_patch: syntax, then lint, then tests; the first failing stage
\* returns its result.  stages lists the stages that ran, in order, each with
\* its result.
Ran(stage, result) == [stage |-> stage, passed |-> result.passed]

verify_patch_lint_continues(f, lint_ok, tests_ok) ==
    LET syntax_result == check_syntax(f)
        lint_result == check_lint(lint_ok)
        test_result == check_tests(tests_ok) IN
    IF ~syntax_result.passed
    THEN [passed |-> FALSE, errors |-> syntax_result.errors,
          stages |-> <<Ran("syntax", syntax_result)>>]
    ELSE IF ~test_result.passed
    THEN [passed |-> FALSE, errors |-> test_result.errors,
          stages |-> <<Ran("syntax", syntax_result), Ran("lint", lint_result),
                       Ran("tests", test_result)>>]
    ELSE [passed |-> lint_result.passed, errors |-> lint_result.errors,
          stages |-> <<Ran("syntax", syntax_result), Ran("lint", lint_result),
                       Ran("tests", test_result)>>]

verify_patch(f, lint_ok, tests_ok) ==
    LET syntax_result == check_syntax(f)
        lint_result == check_lint(lint_ok)
        test_result == check_tests(tests_ok) IN
    IF ~syntax_result.passed
    THEN [passed |-> FALSE, errors |-> syntax_result.errors,
          stages |-> <<Ran("syntax", syntax_result)>>]
    ELSE IF ~lint_result.passed
    THEN [passed |-> FALSE, errors |-> lint_result.errors,
          stages |-> <<Ran("syntax", syntax_result), Ran("lint", lint_result)>>]
    ELSE IF ~test_result.passed
    THEN [passed |-> FALSE, errors |-> test_result.errors,
          stages |-> <<Ran("syntax", syntax_result), Ran("lint", lint_result),
                       Ran("tests", test_result)>>]
    ELSE [passed |-> TRUE, errors |-> <<>>,
          stages |-> <<Ran("syntax", syntax_result), Ran("lint", lint_result),
                       Ran("tests", test_result)>>]

\* check_types runs mypy over the repository; types_ok is what it reports.
check_types(types_ok) ==
    IF types_ok THEN [passed |-> TRUE, errors |-> <<>>]
    ELSE [passed |-> FALSE, errors |-> <<"Type errors">>]

\* verify_final: the type check alone.
verify_final(types_ok) ==
    LET types_result == check_types(types_ok) IN
    IF ~types_result.passed
    THEN types_result
    ELSE [passed |-> TRUE, errors |-> <<>>]

\* ------------------------------------------------------------ the working tree

Paths == {"a.py", "n.py"}

\* The pre-session working tree: a.py exists, n.py does not.
fs0 == [p \in Paths |->
          IF p = "a.py"
          THEN File(TRUE, <<"a", "b", "c", "d", "e", "f", "g">>)
          ELSE NoFile]

\* The diffs the model may send as the "diff" argument of apply_patch: each
\* ends with a newline and, but for CreateOther, carries no file headers.
Diff(lines) == [target |-> "none", lines |-> lines, nl |-> TRUE]

\* Replaces the first line; three lines of context follow.
RepA == Diff(<<Hdr(1, 4, 1, 4), Del("a"), Add("A"), Ctx("b"), Ctx("c"), Ctx("d")>>)
\* Replaces the second line; three lines of context follow.
RepB == Diff(<<Hdr(2, 4, 2, 4), Del("b"), Add("B"), Ctx("c"), Ctx("d"), Ctx("e")>>)
\* RepA with a line that does not parse.
RepBad == Diff(<<Hdr(1, 4, 1, 4), Del("a"), Add(BadSyntax), Ctx("b"), Ctx("c"), Ctx("d")>>)
\* Adds a line at the end of the file, after three lines of context.
AddX == Diff(<<Hdr(5, 3, 5, 4), Ctx("e"), Ctx("f"), Ctx("g"), Add("X")>>)
\* Adds a line at the end of the file, after two lines of context.
AddTwo == Diff(<<Hdr(6, 2, 6, 3), Ctx("f"), Ctx("g"), Add("X")>>)
\* Creates a file.
Create == Diff(<<Hdr(0, 0, 1, 1), Add("n")>>)

\* Create sent with "--- n.py" and "+++ n.py" headers of its own.
CreateOther == [Create EXCEPT !.target = "n.py"]

\* The apply_patch calls the model makes: <<path, diff>>.
PatchCalls ==
    {<<"a.py", RepA>>, <<"a.py", RepB>>, <<"a.py", RepBad>>, <<"a.py", AddX>>,
     <<"n.py", Create>>, <<"n.py", RepA>>}

\* A diff whose first hunk applies and whose second hunk does not, and a diff
\* the validation rejects for its two lines of context.
TwoHunk == Diff(RepA.lines \o <<Hdr(5, 4, 5, 4), Ctx("e"), Ctx("f"), Ctx("g"),
                                Del("z"), Add("Z")>>)
NoContext == Diff(<<Hdr(1, 3, 1, 3), Del("a"), Add("A"), Ctx("b"), Ctx("c")>>)

FailingPatchCalls == {<<"a.py", RepA>>, <<"a.py", TwoHunk>>, <<"a.py", NoContext>>}

\* ------------------------------------------------------------- RunShellTool

\* ALLOWED_PROGRAMS: the allowed flags of each program.
ALLOWED_PROGRAMS ==
    [pytest |-> {"-v", "-x", "-q", "--version", "--tb=short", "--tb=long", "--lf", "--ff"},
     ruff   |-> {"check", "format", "--fix"},
     mypy   |-> {"--strict", "--no-error-summary"},
     python |-> {"-m", "-c"},
     git    |-> {"status", "diff", "log", "show"}]

\* The words _validate_args takes for flags even without a leading "-".
Subcommands == {"check", "format", "status", "diff", "log", "show"}

\* An argument of a command line: its text, whether it starts with "-" or
\* with "/", and whether ".." occurs in it.
Arg(text, dash, slash, dotdot) ==
    [text |-> text, dash |-> dash, slash |-> slash, dotdot |-> dotdot]

\* The check of one argument: "ok" or the error message.
CheckArg(program, arg) ==
    IF arg.dash \/ arg.text \in Subcommands
    THEN IF arg.text \notin ALLOWED_PROGRAMS[program]
         THEN "Flag not allowed" ELSE "ok"
    ELSE IF arg.dotdot \/ arg.slash
         THEN "Suspicious path in argument" ELSE "ok"

\* _validate_args without the test on the path of a positional argument.
validate_args_paths_unchecked(program, args) ==
    IF \E i \in 1..Len(args) :
          (args[i].dash \/ args[i].text \in Subcommands)
          /\ args[i].text \notin ALLOWED_PROGRAMS[program]
    THEN "Flag not allowed"
    ELSE "ok"

\* _validate_args: the error of the first argument that fails, or "ok" (None).
_validate_args(program, args) ==
    IF \E i \in 1..Len(args) : CheckArg(program, args[i]) # "ok"
    THEN LET i == CHOOSE i \in 1..Len(args) :
                     /\ CheckArg(program, args[i]) # "ok"
                     /\ \A j \in 1..(i - 1) : CheckArg(program, args[j]) = "ok"
         IN CheckArg(program, args[i])
    ELSE "ok"

\* RunShellTool.execute on a command line that shlex.split parses
\* (parsed) into the words argv, or fails to parse: the error, and whether
\* subprocess.run was called.
run_shell(parsed, argv) ==
    IF ~parsed
    THEN [error |-> "Failed to parse command", spawned |-> FALSE]
    ELSE IF argv = <<>>
    THEN [error |-> "Empty command", spawned |-> FALSE]
    ELSE IF argv[1].text \notin DOMAIN ALLOWED_PROGRAMS
    THEN [error |-> "Program not allowed", spawned |-> FALSE]
    ELSE IF _validate_args(argv[1].text, Tail(argv)) # "ok"
    THEN [error |-> _validate_args(argv[1].text, Tail(argv)), spawned |-> FALSE]
    ELSE [error |-> "none", spawned |-> TRUE]

\* ---------------------------------------------- the inputs of single tool calls

\* Diffs put together from at most MaxSegments of these pieces.
MaxSegments == 4

Segments ==
    {<<Hdr(1, 4, 1, 4)>>,
     <<Hdr(0, 0, 1, 1)>>,
     <<Del("a"), Add("A")>>,
     <<Add("X")>>,
     <<Ctx("b"), Ctx("c"), Ctx("d")>>,
     <<Ctx("b"), Ctx("c")>>,
     <<Ctx("# TODO")>>,
     <<Del("a"), AddPlus("++i")>>,
     <<EmptyLine>>,
     <<Marker>>,
     <<DiffLine("diff -r")>>,
     <<Junk("junk")>>}

RECURSIVE Flatten(_)
Flatten(ss) == IF ss = <<>> THEN <<>> ELSE Head(ss) \o Flatten(Tail(ss))

DiffInputs ==
    {Diff(Flatten(ss)) : ss \in UNION {[1..n -> Segments] : n \in 1..MaxSegments}}

\* Command lines of at most MaxArgs arguments after the program.
MaxArgs == 3

Programs == {Arg("pytest", FALSE, FALSE, FALSE), Arg("git", FALSE, FALSE, FALSE),
             Arg("rm", FALSE, FALSE, FALSE), Arg("/bin/sh", FALSE, TRUE, FALSE)}

Args == {Arg("-v", TRUE, FALSE, FALSE), Arg("-rf", TRUE, FALSE, FALSE),
         Arg("status", FALSE, FALSE, FALSE), Arg("tests", FALSE, FALSE, FALSE),
         Arg("commit", FALSE, FALSE, FALSE),
         Arg("../x", FALSE, FALSE, TRUE), Arg("/etc", FALSE, TRUE, FALSE),
         Arg("--tb=../x", TRUE, FALSE, TRUE)}

ShellInputs ==
    {[parsed |-> FALSE, argv |-> <<>>], [parsed |-> TRUE, argv |-> <<>>]}
    \cup {[parsed |-> TRUE, argv |-> <<prog>> \o rest] :
             prog \in Programs, rest \in UNION {[1..n -> Args] : n \in 0..MaxArgs}}

\* ------------------------------------------------------------------ RepoMap
\* Paths, dotted module names and test patterns are sequences of characters.

PY == <<".", "p", "y">>
INIT_PY == <<"/", "_", "_", "i", "n", "i", "t", "_", "_", ".", "p", "y">>

\* The tables of the index: files maps each indexed path to its hash,
\* imports and dependencies hold the rows of each source file in the order
\* of their insertion.
RepoPaths == {<<"a">> \o PY, <<"t", "/", "x">> \o PY, <<"t", "/", "y">> \o PY,
              <<"T", "/", "z">> \o PY, <<"t", "a", "x">> \o PY,
              <<"p">> \o INIT_PY, <<"p">> \o PY}

NoRow == "none"

EmptyDb == [files |-> [p \in RepoPaths |-> NoRow],
            imports |-> [p \in RepoPaths |-> <<>>],
            dependencies |-> [p \in RepoPaths |-> <<>>]]

IndexedFiles(d) == {p \in RepoPaths : d.files[p] # NoRow}

\* update_file(file_path, file_hash, imports, timestamp).
update_file(d, file_path, file_hash, imports) ==
    [files |-> [d.files EXCEPT ![file_path] = file_hash],
     imports |-> [d.imports EXCEPT ![file_path] = imports],
     dependencies |-> [d.dependencies EXCEPT ![file_path] = <<>>]]

\* "/".join(imported_module.split(".")) and the two candidate paths.
ModulePath(imported_module) ==
    [i \in 1..Len(imported_module) |->
        IF imported_module[i] = "." THEN "/" ELSE imported_module[i]]

possible_paths(imported_module) ==
    <<ModulePath(imported_module) \o PY, ModulePath(imported_module) \o INIT_PY>>

\* The edges one source file gets from its import rows: for each row the
\* first candidate that is an indexed file, none when neither is.
RECURSIVE ResolveRows(_, _)
ResolveRows(rows, all_files) ==
    IF rows = <<>> THEN <<>>
    ELSE (IF possible_paths(Head(rows))[1] \in all_files
          THEN <<possible_paths(Head(rows))[1]>>
          ELSE IF possible_paths(Head(rows))[2] \in all_files
          THEN <<possible_paths(Head(rows))[2]>>
          ELSE <<>>) \o ResolveRows(Tail(rows), all_files)

\* resolve_dependencies without its DELETE FROM dependencies.
resolve_dependencies_keeps_old_edges(d) ==
    [d EXCEPT !.dependencies =
        [p \in RepoPaths |-> d.dependencies[p] \o ResolveRows(d.imports[p], IndexedFiles(d))]]

\* resolve_dependencies(project_root).
resolve_dependencies(d) ==
    [d EXCEPT !.dependencies =
        [p \in RepoPaths |-> ResolveRows(d.imports[p], IndexedFiles(d))]]

\* Python's "pattern in path".
RECURSIVE IsPrefix(_, _)
IsPrefix(s, t) ==
    \/ s = <<>>
    \/ t # <<>> /\ Head(s) = Head(t) /\ IsPrefix(Tail(s), Tail(t))

RECURSIVE Contains(_, _)
Contains(t, s) == IsPrefix(s, t) \/ (t # <<>> /\ Contains(Tail(t), s))

\* SQLite's LIKE: "%" stands for any run of characters, "_" for any one
\* character, and ASCII letters match without regard to case ("T" is the
\* only capital among the characters of the paths).
LikeFold(c) == IF c = "T" THEN "t" ELSE c

RECURSIVE Like(_, _)
Like(t, pattern) ==
    IF pattern = <<>> THEN t = <<>>
    ELSE IF Head(pattern) = "%"
    THEN Like(t, Tail(pattern)) \/ (t # <<>> /\ Like(Tail(t), pattern))
    ELSE /\ t # <<>>
         /\ Head(pattern) = "_" \/ LikeFold(Head(pattern)) = LikeFold(Head(t))
         /\ Like(Tail(t), Tail(pattern))

\* sorted() on strings: by code point, a proper prefix first.
CodePoint == [c \in {".", "/", "T", "_", "a", "i", "n", "p", "q", "t", "x", "y", "z"} |->
                CASE c = "." -> 46 [] c = "/" -> 47 [] c = "T" -> 84 [] c = "_" -> 95
                  [] c = "a" -> 97 [] c = "i" -> 105 [] c = "n" -> 110 [] c = "p" -> 112
                  [] c = "q" -> 113 [] c = "t" -> 116 [] c = "x" -> 120 [] c = "y" -> 121
                  [] c = "z" -> 122]

RECURSIVE StrLess(_, _)
StrLess(s, t) ==
    IF t = <<>> THEN FALSE
    ELSE IF s = <<>> THEN TRUE
    ELSE IF Head(s) = Head(t) THEN StrLess(Tail(s), Tail(t))
    ELSE CodePoint[Head(s)] < CodePoint[Head(t)]

RECURSIVE sorted(_)
sorted(S) ==
    IF S = {} THEN <<>>
    ELSE LET least == CHOOSE s \in S : \A t \in S \ {s} : StrLess(s, t)
         IN <<least>> \o sorted(S \ {least})

SeqRange(s) == {s[i] : i \in 1..Len(s)}

\* The SELECT of find_affected_tests: the source files of the rows whose
\* target is a modified file and whose source is LIKE %pattern% for some
\* pattern.
SelectDependents(d, modified_files, test_patterns) ==
    {p \in RepoPaths :
        /\ \E t \in SeqRange(d.dependencies[p]) : t \in SeqRange(modified_files)
        /\ \E pattern \in SeqRange(test_patterns) : Like(p, <<"%">> \o pattern \o <<"%">>)}

\* find_affected_tests(modified_files, test_patterns): the list returned, or
\* raised when the query is not valid SQL, its condition "AND ()" having no
\* pattern.
find_affected_tests(d, modified_files, test_patterns) ==
    IF modified_files = <<>> THEN [raised |-> FALSE, tests |-> <<>>]
    ELSE IF test_patterns = <<>> THEN [raised |-> TRUE, tests |-> <<>>]
    ELSE [raised |-> FALSE,
          tests |-> sorted(SelectDependents(d, modified_files, test_patterns)
                           \cup {f \in SeqRange(modified_files) :
                                    \E pattern \in SeqRange(test_patterns) :
                                        Contains(f, pattern)})]

\* The files indexed, each with its hash and its imports; t/x.py in two
\* versions.
Indexed ==
    {[path |-> <<"a">> \o PY, hash |-> "h1", imports |-> <<>>],
     [path |-> <<"t", "/", "x">> \o PY, hash |-> "h1", imports |-> <<<<"a">>, <<"p">>>>],
     [path |-> <<"t", "/", "x">> \o PY, hash |-> "h2", imports |-> <<>>],
     [path |-> <<"t", "/", "y">> \o PY, hash |-> "h1", imports |-> <<<<"t", ".", "x">>>>],
     [path |-> <<"T", "/", "z">> \o PY, hash |-> "h1", imports |-> <<<<"a">>, <<"a">>>>],
     [path |-> <<"t", "a", "x">> \o PY, hash |-> "h1", imports |-> <<<<"a">>>>],
     [path |-> <<"p">> \o INIT_PY, hash |-> "h1", imports |-> <<>>],
     [path |-> <<"p">> \o PY, hash |-> "h1", imports |-> <<>>]}

\* The queries made: lists of modified files and lists of test patterns.
ModifiedLists ==
    {<<>>, <<<<"a">> \o PY>>, <<<<"a">> \o PY, <<"a">> \o PY>>,
     <<<<"t", "/", "q">> \o PY, <<"a">> \o PY>>, <<<<"t", "/", "x">> \o PY>>}

PatternLists == {<<>>, <<<<"t", "/">>>>, <<<<"t", "_">>>>, <<<<"t", "/">>, <<"T", "/">>>>}

\* -------------------------------------------------------------- EventStream
\* The log file is a text: a sequence of characters, where the fixed parts
\* json.dump writes around the strings of an event stand as one element each.

\* json.dump on a string: quotes around it, and inside it a backslash before
\* each quote and backslash, a newline written as backslash and "n".
RECURSIVE Escape(_)
Escape(s) ==
    IF s = <<>> THEN <<>>
    ELSE (IF Head(s) = "\n" THEN <<"\\", "n">>
          ELSE IF Head(s) \in {"\"", "\\"} THEN <<"\\", Head(s)>>
          ELSE <<Head(s)>>) \o Escape(Tail(s))

\* The same without the escaping.
dump_string_unescaped(s) == <<"\"">> \o s \o <<"\"">>

dump_string(s) == <<"\"">> \o Escape(s) \o <<"\"">>

\* json.dump(event.to_dict(), f): one line without its newline.
dump_event(event) ==
    <<"{\"timestamp\": ">> \o dump_string(event.timestamp)
    \o <<", \"event_type\": ">> \o dump_string(event.event_type)
    \o <<", \"data\": {\"text\": ">> \o dump_string(event.data) \o <<"}}">>

\* EventStream.append: the file is opened for appending, created when it is
\* missing, and gets the line and a newline.
AppendToLog(f, event) ==
    [exists |-> TRUE, text |-> f.text \o dump_event(event) \o <<"\n">>]

\* EventStream.clear.
ClearLog(f) == [exists |-> FALSE, text |-> <<>>]

\* "for line in f": the text cut after each newline.
RECURSIVE FileLines(_, _)
FileLines(text, line) ==
    IF text = <<>> THEN (IF line = <<>> THEN <<>> ELSE <<line>>)
    ELSE IF Head(text) = "\n" THEN <<line \o <<"\n">>>> \o FileLines(Tail(text), <<>>)
    ELSE FileLines(Tail(text), Append(line, Head(text)))

\* line.strip() is empty.
IsBlank(line) == \A i \in 1..Len(line) : line[i] \in {" ", "\n"}

\* json.loads on a string that starts at line[i] with its opening quote: the
\* string and the position after its closing quote, or no string.
RECURSIVE LoadChars(_, _, _)
LoadChars(line, i, acc) ==
    IF i > Len(line) THEN [ok |-> FALSE, value |-> acc, next |-> i]
    ELSE IF line[i] = "\"" THEN [ok |-> TRUE, value |-> acc, next |-> i + 1]
    ELSE IF line[i] = "\n" THEN [ok |-> FALSE, value |-> acc, next |-> i]
    ELSE IF line[i] = "\\"
    THEN IF i + 1 > Len(line) THEN [ok |-> FALSE, value |-> acc, next |-> i]
         ELSE IF line[i + 1] = "n" THEN LoadChars(line, i + 2, Append(acc, "\n"))
         ELSE IF line[i + 1] \in {"\"", "\\"}
         THEN LoadChars(line, i + 2, Append(acc, line[i + 1]))
         ELSE [ok |-> FALSE, value |-> acc, next |-> i]
    ELSE LoadChars(line, i + 1, Append(acc, line[i]))

load_string(line, i) ==
    IF i <= Len(line) /\ line[i] = "\"" THEN LoadChars(line, i + 1, <<>>)
    ELSE [ok |-> FALSE, value |-> <<>>, next |-> i]

Expect(line, i, part) == i <= Len(line) /\ line[i] = part

\* json.loads(line) and the Event made of it; ok is FALSE where json.loads
\* or a lookup raises.
load_event(line) ==
    LET ts == load_string(line, 2)
        type == load_string(line, ts.next + 1)
        data == load_string(line, type.next + 1)
    IN
    IF /\ Expect(line, 1, "{\"timestamp\": ") /\ ts.ok
       /\ Expect(line, ts.next, ", \"event_type\": ") /\ type.ok
       /\ Expect(line, type.next, ", \"data\": {\"text\": ") /\ data.ok
       /\ Expect(line, data.next, "}}")
       /\ IsBlank(SubSeq(line, data.next + 1, Len(line)))
    THEN [ok |-> TRUE,
          event |-> [timestamp |-> ts.value, event_type |-> type.value, data |-> data.value]]
    ELSE [ok |-> FALSE]

\* EventStream.read_all: no event when the file is missing, else the event
\* of every line that is not blank.
RECURSIVE LoadLines(_, _)
LoadLines(lines, events) ==
    IF lines = <<>> THEN [raised |-> FALSE, events |-> events]
    ELSE IF IsBlank(Head(lines)) THEN LoadLines(Tail(lines), events)
    ELSE IF load_event(Head(lines)).ok
    THEN LoadLines(Tail(lines), Append(events, load_event(Head(lines)).event))
    ELSE [raised |-> TRUE, events |-> events]

read_all(f) ==
    IF ~f.exists THEN [raised |-> FALSE, events |-> <<>>]
    ELSE LoadLines(FileLines(f.text, <<>>), <<>>)

\* The events written: their types, and their data with spaces, newlines,
\* quotes and backslashes.
MaxAppends == 3

EventTypes == {<<"p", "l", "a", "n">>, <<"t", "o", "o", "l", "_", "r", "e", "s", "u", "l", "t">>}

EventTexts == {<<>>, <<"a">>, <<"a", "\n", "b", "\n">>, <<"\n">>, <<" ">>,
               <<"\"", "}", "}">>, <<"\\", "n">>, <<"a", "\\">>}

\* datetime.now(UTC).isoformat() at the n-th append.
Clock == <<<<"T", "1">>, <<"T", "2">>, <<"T", "3">>>>

\* ----------------------------------------------------------------- the state

VARIABLES
    pc,                  \* where the session is: "init", "planning", "loop",
                         \* "tools", "ended", ...
    stop_reason,         \* why the turn loop ended
    turn_count, tool_call_count, patch_attempt_count,   \* AgentState counters
    retry_count,         \* AgentState._retry_count (0: no entry)
    created_files,       \* AgentState._created_files
    changes,             \* AgentState.changes
    last_errors,         \* AgentState.last_errors
    fs,                  \* the working tree
    calls_in_response,   \* tool-use blocks of the current response taken so far
    tool_results,        \* tool results collected in the current turn: the
                         \* tool_use_id of each
    exec_requests,       \* observer: EXECUTE requests sent to the model
    all_turns_tool,      \* observer: every response so far had a tool-use block
    last,                \* observer: what the last tool call did
    change_pre,          \* observer: for each ChangeOp, its file before the patch
    applied_after_fail,  \* observer: per path, patches applied with success after
                         \* its first failure
    failed_before,       \* observer: per path, whether a patch on it has failed
    fail_streak,         \* observer: per path, consecutive failing apply_patch calls
    streak_applies,      \* observer: per path, DiffEngine invocations among them
    retried,             \* observer: per path, patches applied since a failure that
                         \* no accepted patch has followed
    revert_failed_events,\* "revert_failed" events in the event stream
    failed_reverts,      \* observer: reverse diffs whose application failed
    fin,                 \* observer: what finalize did
    probe,               \* the tool call under test, where a tool is run alone
    result,              \* what that tool call gave
    db,                  \* the tables of the RepoMap
    log_file,            \* the file of the EventStream
    appended,            \* observer: the events appended since the log was
                         \* last empty
    messages,            \* AgentState.messages: the transcript
    plan_events,         \* "plan" events in the event stream
    review               \* observer: the plan review, until the first turn

vars == <<pc, stop_reason, turn_count, tool_call_count, patch_attempt_count,
          retry_count, created_files, changes, last_errors, fs, calls_in_response,
          tool_results, exec_requests, all_turns_tool, last, change_pre,
          applied_after_fail, failed_before, fail_streak, streak_applies, retried,
          revert_failed_events, failed_reverts, fin, probe, result, db, log_file, appended,
                   messages, plan_events, review>>

NoCall == [tool |-> "none", path |-> "", diff |-> NoDiff, outcome |-> "none",
           engine_calls |-> 0, apply_success |-> FALSE, reverse_diff |-> NoDiff,
           stages |-> <<>>, passed |-> FALSE, errors |-> <<>>,
           revert |-> "none", existed |-> FALSE, pre |-> NoFile, text |-> "",
           events |-> <<>>]

\* finalize not called yet.
NoFin == [called |-> FALSE, final_check_ran |-> FALSE, final_passed |-> FALSE,
          prompted |-> FALSE, keep |-> FALSE, returned |-> FALSE,
          attempts |-> <<>>, raised |-> FALSE, failed_ops |-> <<>>]

NoProbe == [kind |-> "none"]

\* No plan review made.
NoReview == [show_plan |-> FALSE, response |-> <<>>, made |-> FALSE]

\* The agent's state after construction.
AgentInit ==
    /\ pc = "init"
    /\ stop_reason = "none"
    /\ turn_count = 0
    /\ tool_call_count = 0
    /\ patch_attempt_count = 0
    /\ retry_count = [p \in Paths |-> 0]
    /\ created_files = {}
    /\ changes = <<>>
    /\ last_errors = <<>>
    /\ fs = fs0
    /\ calls_in_response = 0
    /\ tool_results = <<>>
    /\ exec_requests = 0
    /\ all_turns_tool = TRUE
    /\ last = NoCall
    /\ change_pre = <<>>
    /\ applied_after_fail = [p \in Paths |-> 0]
    /\ failed_before = [p \in Paths |-> FALSE]
    /\ fail_streak = [p \in Paths |-> 0]
    /\ streak_applies = [p \in Paths |-> 0]
    /\ retried = [p \in Paths |-> 0]
    /\ revert_failed_events = 0
    /\ failed_reverts = 0
    /\ fin = NoFin
    /\ db = EmptyDb
    /\ log_file = [exists |-> FALSE, text |-> <<>>]
    /\ appended = <<>>
    /\ messages = <<>>
    /\ plan_events = 0
    /\ review = NoReview

Init ==
    /\ AgentInit
    /\ probe = NoProbe
    /\ result = NoProbe

\* ------------------------------------------------------------ Agent: limits

\* _check_limits: the first limit reached, or "none".
check_limits_turns_unchecked(tc, tcc, pac) ==
    IF tcc >= max_tool_calls THEN "max_tool_calls"
    ELSE IF pac >= max_patch_attempts THEN "max_patch_attempts"
    ELSE "none"

_check_limits(tc, tcc, pac) ==
    IF tc >= max_turns THEN "max_turns"
    ELSE IF tcc >= max_tool_calls THEN "max_tool_calls"
    ELSE IF pac >= max_patch_attempts THEN "max_patch_attempts"
    ELSE "none"

\* The per-path retry guard of _execute_patch_with_verification.
retries_never_exhausted(rc) == FALSE

retries_exhausted_early(rc) == rc >= max_retries_per_patch - 1

retries_exhausted_off_by_one(rc) == rc > max_retries_per_patch

RetriesExhausted(rc) == rc >= max_retries_per_patch

\* ------------------------------------------- Agent: patch with verification

\* "apply_result.reverse_diff is None"
reverse_diff_never_missing(reverse_diff) == FALSE

reverse_diff_missing(reverse_diff) == reverse_diff = NoDiff

ChangeOp(path, forward_diff, reverse_diff, step_id) ==
    [path |-> path, forward_diff |-> forward_diff, reverse_diff |-> reverse_diff,
     step_id |-> step_id]

\* _execute_patch_with_verification(path, diff) in the current state, with
\* lint_ok and tests_ok what the linter and the test runner report if they
\* run: the new values of the fields it writes, and what it did.  step_id is
\* patch_attempt_count as the turn loop has just incremented it.

\* The retry guard: nothing is touched.
StopRetrying ==
    [outcome |-> "max_retries", fs |-> fs, retry_count |-> retry_count,
     created_files |-> created_files, changes |-> changes,
     last_errors |-> last_errors, applied |-> FALSE, apply_success |-> FALSE,
     stages |-> <<>>, passed |-> FALSE, errors |-> <<>>, revert |-> "none",
     revert_ran |-> FALSE, reverse_diff |-> NoDiff, revert_failed_events |-> 0,
     text |-> "ERROR: Exceeded retry attempts. Stop trying to patch this file"]

\* The patch was applied and verify_patch has run.
Verified(apply_result, verification) ==
    [StopRetrying EXCEPT !.fs = apply_result.fs,
                         !.applied = TRUE,
                         !.apply_success = TRUE,
                         !.stages = verification.stages,
                         !.passed = verification.passed,
                         !.errors = verification.errors,
                         !.reverse_diff = apply_result.reverse_diff]

\* Verification failed: revert_result is what applying the reverse diff did.
VerificationFailed(path, apply_result, verification, revert_result) ==
    [Verified(apply_result, verification) EXCEPT
        !.outcome = "verify_failed",
        !.retry_count = [retry_count EXCEPT ![path] = @ + 1],
        !.fs = IF apply_result.reverse_diff # NoDiff
               THEN revert_result.fs ELSE apply_result.fs,
        !.revert_ran = apply_result.reverse_diff # NoDiff,
        !.revert = IF apply_result.reverse_diff = NoDiff THEN "skipped"
                   ELSE IF revert_result.success THEN "ok" ELSE "failed",
        !.revert_failed_events = IF /\ apply_result.reverse_diff # NoDiff
                                    /\ ~revert_result.success
                                 THEN 1 ELSE 0,
        !.last_errors = verification.errors,
        !.text = "Patch reverted due to verification failure"]

VerificationPassed(path, d, step_id, is_new_file, apply_result, verification) ==
    IF reverse_diff_missing(apply_result.reverse_diff)
    THEN [Verified(apply_result, verification) EXCEPT
            !.outcome = "no_reverse",
            !.text = "Error: Failed to generate reverse diff"]
    ELSE [Verified(apply_result, verification) EXCEPT
            !.outcome = "accepted",
            !.created_files = IF is_new_file THEN created_files \cup {path}
                              ELSE created_files,
            !.retry_count = [retry_count EXCEPT ![path] = 0],
            !.changes = Append(changes,
                               ChangeOp(path, d, apply_result.reverse_diff, step_id)),
            !.text = "SUCCESS: Patch applied and verified. Task complete - stop now"]

PatchVerified(path, d, step_id, is_new_file, apply_result, verification) ==
    IF verification.passed
    THEN VerificationPassed(path, d, step_id, is_new_file, apply_result, verification)
    ELSE VerificationFailed(path, apply_result, verification,
                            execute(path, apply_result.reverse_diff, apply_result.fs))

PatchExecuted(path, d, step_id, lint_ok, tests_ok, is_new_file, apply_result) ==
    IF ~apply_result.success
    THEN [StopRetrying EXCEPT !.outcome = "apply_failed",
                              !.fs = apply_result.fs,
                              !.retry_count = [retry_count EXCEPT ![path] = @ + 1],
                              !.applied = TRUE,
                              !.text = "Error: " \o apply_result.reason]
    ELSE PatchVerified(path, d, step_id, is_new_file, apply_result,
                       verify_patch(apply_result.fs[path], lint_ok, tests_ok))

_execute_patch_with_verification(path, d, step_id, lint_ok, tests_ok) ==
    IF RetriesExhausted(retry_count[path])
    THEN StopRetrying
    ELSE PatchExecuted(path, d, step_id, lint_ok, tests_ok, ~fs[path].ex,
                       execute(path, d, fs))

\* ------------------------------------------------- Agent: answers typed

\* The answers typed at "Keep changes? [y/N]: ", as sequences of characters.
Responses == {<<"y">>, <<" ", "Y", " ">>, <<"n">>, <<>>, <<"y", "e", "s">>}

\* str.strip() and str.lower() on such an answer.
RECURSIVE lstrip(_)
lstrip(r) == IF r # <<>> /\ Head(r) = " " THEN lstrip(Tail(r)) ELSE r

RECURSIVE rstrip(_)
rstrip(r) == IF r # <<>> /\ r[Len(r)] = " " THEN rstrip(SubSeq(r, 1, Len(r) - 1)) ELSE r

strip(r) == rstrip(lstrip(r))

lower(r) == [i \in 1..Len(r) |-> IF r[i] = "Y" THEN "y"
                                 ELSE IF r[i] = "N" THEN "n" ELSE r[i]]

\* ---------------------------------------------- Agent: the tools of the loop

NoCommand == [parsed |-> FALSE, argv |-> <<>>]

\* A tool-use block: the name of the tool and its input.  required tells
\* whether the input holds the arguments the tool requires, readable whether
\* the file at path can be read as text.
ToolUse(name, required, path, readable, command) ==
    [name |-> name, required |-> required, path |-> path, readable |-> readable,
     command |-> command]

\* The blocks other than apply_patch with its arguments that the model sends.
OtherTools == {ToolUse("read_file", TRUE, "a.py", TRUE, NoCommand)}

\* Blocks that fail: a tool that does not exist, tools without their required
\* argument, a file that is missing or cannot be read, a command that is not
\* allowed.
FailingToolCalls ==
    {ToolUse("unknown_tool", TRUE, "a.py", TRUE, NoCommand),
     ToolUse("read_file", FALSE, "a.py", TRUE, NoCommand),
     ToolUse("run_shell", FALSE, "a.py", TRUE, NoCommand),
     ToolUse("apply_patch", FALSE, "a.py", TRUE, NoCommand),
     ToolUse("read_file", TRUE, "n.py", TRUE, NoCommand),
     ToolUse("read_file", TRUE, "a.py", FALSE, NoCommand),
     ToolUse("run_shell", TRUE, "a.py", TRUE,
             [parsed |-> TRUE, argv |-> <<Arg("rm", FALSE, FALSE, FALSE),
                                           Arg("-rf", TRUE, FALSE, FALSE)>>])}

\* ReadFileTool.execute(path) and ToolResult.to_content: the text returned.
read_file(path, readable, t) ==
    IF ~t[path].ex THEN "Error: File not found"
    ELSE IF ~readable THEN "Error: Failed to read file"
    ELSE "output"

\* _execute_tool for such a block: the text of the content it returns, or
\* raised where the lookup of a required argument raises KeyError.
_execute_tool(call, t) ==
    IF call.name = "read_file"
    THEN IF ~call.required THEN [raised |-> TRUE, text |-> ""]
         ELSE [raised |-> FALSE, text |-> read_file(call.path, call.readable, t)]
    ELSE IF call.name = "apply_patch"
    THEN [raised |-> TRUE, text |-> ""]
    ELSE IF call.name = "run_shell"
    THEN IF ~call.required THEN [raised |-> TRUE, text |-> ""]
         ELSE IF run_shell(call.command.parsed, call.command.argv).error = "none"
         THEN [raised |-> FALSE, text |-> "output"]
         ELSE [raised |-> FALSE,
               text |-> run_shell(call.command.parsed, call.command.argv).error]
    ELSE [raised |-> FALSE, text |-> "Error: Unknown tool"]

\* The messages of the transcript: the task, an assistant response with the
\* ids of its tool-use blocks, a user message with the tool_use_id of each of
\* its tool results.
TaskMessage == [role |-> "user", content |-> "task", ids |-> <<>>]
AssistantMessage(ids) == [role |-> "assistant", content |-> "tool_use", ids |-> ids]
ToolResultMessage(ids) == [role |-> "user", content |-> "tool_result", ids |-> ids]

\* The id of the block the loop is at: the blocks of a response are drawn
\* one at a time as the loop reaches them, and each is entered in the
\* assistant message of the response when it is drawn.
ToolUseId == <<turn_count, Len(messages[Len(messages)].ids) + 1>>

ToolUseDrawn == [messages EXCEPT ![Len(messages)].ids = Append(@, ToolUseId)]

\* tool_results with the new result put in front.
collected_in_front(results, tool_use_id) == <<tool_use_id>> \o results

\* tool_results.append({"type": "tool_result", "tool_use_id": ...}).
collected(results, tool_use_id) == Append(results, tool_use_id)

\* ------------------------------------------------------ Agent: the planning

\* The answers typed at "Proceed? [Y/n]: ".
PlanResponses == Responses \cup {<<" ", "N", " ">>}

\* _get_plan: the PLAN request, and the plan logged as a "plan" event.
GetPlan ==
    /\ pc = "init"
    /\ pc' = "planning"
    /\ plan_events' = plan_events + 1
    /\ UNCHANGED <<stop_reason, turn_count, tool_call_count, patch_attempt_count,
                   retry_count, created_files, changes, last_errors, fs,
                   calls_in_response, tool_results, exec_requests, all_turns_tool, last,
                   change_pre, applied_after_fail, failed_before, fail_streak,
                   streak_applies, retried, revert_failed_events, failed_reverts, fin,
                   probe, result, db, log_file, appended, messages, review>>

\* A reply to the plan review that is taken for "n" whatever it is.
plan_rejected_unless_yes(show_plan, response) ==
    show_plan /\ lower(strip(response)) # <<"y">>

\* The plan is turned down: show_plan and response == "n".
plan_rejected(show_plan, response) == show_plan /\ lower(strip(response)) = <<"n">>

\* The rest of run up to the turn loop: with show_plan the prompt, and the
\* state returned at once, its messages empty, when the plan is turned down;
\* else the transcript starts with the task and the plan.
PlanReview(show_plan, response) ==
    /\ pc = "planning"
    /\ review' = [show_plan |-> show_plan, made |-> TRUE,
                  response |-> IF show_plan THEN response ELSE <<>>]
    /\ IF plan_rejected(show_plan, response)
       THEN /\ pc' = "aborted"
            /\ messages' = <<>>
       ELSE /\ pc' = "loop"
            /\ messages' = <<TaskMessage>>
    /\ UNCHANGED <<stop_reason, turn_count, tool_call_count, patch_attempt_count,
                   retry_count, created_files, changes, last_errors, fs,
                   calls_in_response, tool_results, exec_requests, all_turns_tool, last,
                   change_pre, applied_after_fail, failed_before, fail_streak,
                   streak_applies, retried, revert_failed_events, failed_reverts, fin,
                   probe, result, db, log_file, appended, plan_events>>

\* ---------------------------------------------------- Agent: the turn loop

\* One pass through the head of the while loop of _execute_loop: the limit
\* check, then the EXECUTE request and the model's response, which carries
\* tool-use blocks (has_tool_use) or ends the loop.
ModelTurn(has_tool_use) ==
    /\ pc = "loop"
    /\ LET limit == _check_limits(turn_count, tool_call_count, patch_attempt_count) IN
       IF limit # "none"
       THEN /\ pc' = "ended"
            /\ stop_reason' = limit
            /\ UNCHANGED <<turn_count, exec_requests, all_turns_tool,
                           calls_in_response, tool_results, messages>>
       ELSE /\ turn_count' = turn_count + 1
            /\ exec_requests' = exec_requests + 1
            /\ calls_in_response' = 0
            /\ tool_results' = <<>>
            /\ IF has_tool_use
               THEN /\ pc' = "tools"
                    /\ messages' = Append(messages, AssistantMessage(<<>>))
                    /\ UNCHANGED <<stop_reason, all_turns_tool>>
               ELSE /\ pc' = "ended"
                    /\ stop_reason' = "complete"
                    /\ all_turns_tool' = FALSE
                    /\ UNCHANGED messages
    /\ last' = NoCall
    /\ review' = NoReview
    /\ UNCHANGED <<tool_call_count, patch_attempt_count, retry_count, created_files,
                   changes, last_errors, fs, change_pre, applied_after_fail,
                   failed_before, fail_streak, streak_applies, retried,
                   revert_failed_events, failed_reverts, fin, probe, result, db,
                   log_file, appended, plan_events>>

\* The events written for one executed tool call, in the order of the
\* writes: the patch engine writes "revert_failed" while the tool runs, the
\* turn loop writes "tool_call" and "tool_result" once the tool has returned.
tool_events(revert_failed) ==
    (IF revert_failed = 1 THEN <<"revert_failed">> ELSE <<>>)
    \o <<"tool_call", "tool_result">>

\* The next tool-use block of the response is not an apply_patch with its
\* arguments: the tool runs and its result is collected, unless a limit is
\* reached or the call raises, which ends the loop and the session.
ExecOtherTool(call) ==
    /\ pc = "tools"
    /\ calls_in_response < MaxCallsPerResponse
    /\ tool_call_count' = tool_call_count + 1
    /\ patch_attempt_count' = patch_attempt_count
                              + (IF call.name = "apply_patch" THEN 1 ELSE 0)
    /\ messages' = ToolUseDrawn
    /\ LET limit == _check_limits(turn_count, tool_call_count + 1,
                                  patch_attempt_count
                                  + (IF call.name = "apply_patch" THEN 1 ELSE 0))
       IN
       IF limit # "none"
       THEN /\ pc' = "ended"
            /\ stop_reason' = limit
            /\ last' = [NoCall EXCEPT !.tool = call.name, !.outcome = "limit"]
            /\ UNCHANGED <<calls_in_response, tool_results>>
       ELSE \E r \in {_execute_tool(call, fs)} :
            IF r.raised
            THEN /\ pc' = "raised"
                 /\ last' = [NoCall EXCEPT !.tool = call.name, !.outcome = "raised"]
                 /\ UNCHANGED <<stop_reason, calls_in_response, tool_results>>
            ELSE /\ last' = [NoCall EXCEPT !.tool = call.name, !.outcome = "done",
                                           !.text = r.text,
                                           !.events = tool_events(0)]
                 /\ calls_in_response' = calls_in_response + 1
                 /\ tool_results' = collected(tool_results, ToolUseId)
                 /\ UNCHANGED <<pc, stop_reason>>
    /\ UNCHANGED <<turn_count, retry_count, created_files, changes,
                   last_errors, fs, exec_requests, all_turns_tool, change_pre,
                   applied_after_fail, failed_before, fail_streak, streak_applies, retried,
                   revert_failed_events, failed_reverts, fin, probe, result, db,
                   log_file, appended, plan_events, review>>

\* The next tool-use block is apply_patch(path, d).
ExecApplyPatch(path, d, lint_ok, tests_ok) ==
    /\ pc = "tools"
    /\ calls_in_response < MaxCallsPerResponse
    /\ tool_call_count' = tool_call_count + 1
    /\ patch_attempt_count' = patch_attempt_count + 1
    /\ LET limit == _check_limits(turn_count, tool_call_count + 1, patch_attempt_count + 1)
           called == [NoCall EXCEPT !.tool = "apply_patch", !.path = path, !.diff = d,
                                    !.existed = fs[path].ex, !.pre = fs[path]]
       IN
       IF limit # "none"
       THEN /\ pc' = "ended"
            /\ stop_reason' = limit
            /\ last' = [called EXCEPT !.outcome = "limit"]
            /\ UNCHANGED <<calls_in_response, tool_results, retry_count, created_files,
                           changes, last_errors, fs, change_pre, applied_after_fail,
                           failed_before, fail_streak, streak_applies, retried,
                           revert_failed_events, failed_reverts>>
       ELSE \E r \in {_execute_patch_with_verification(path, d, patch_attempt_count + 1,
                                                      lint_ok, tests_ok)} :
            LET failing == r.outcome \in {"max_retries", "apply_failed", "verify_failed"}
                failure == r.outcome \in {"apply_failed", "verify_failed"}
                accepted == r.outcome = "accepted"
            IN
            /\ fs' = r.fs
            /\ retry_count' = r.retry_count
            /\ created_files' = r.created_files
            /\ changes' = r.changes
            /\ last_errors' = r.last_errors
            /\ last' = [called EXCEPT !.outcome = r.outcome,
                                      !.engine_calls = (IF r.applied THEN 1 ELSE 0)
                                                       + (IF r.revert_ran THEN 1 ELSE 0),
                                      !.apply_success = r.apply_success,
                                      !.reverse_diff = r.reverse_diff,
                                      !.stages = r.stages, !.passed = r.passed,
                                      !.errors = r.errors, !.revert = r.revert,
                                      !.text = r.text,
                                      !.events = tool_events(r.revert_failed_events)]
            /\ change_pre' = IF accepted
                             THEN Append(change_pre, fs[path]) ELSE change_pre
            /\ applied_after_fail' =
                 IF r.apply_success /\ failed_before[path]
                 THEN [applied_after_fail EXCEPT ![path] = @ + 1]
                 ELSE applied_after_fail
            /\ failed_before' = IF failure THEN [failed_before EXCEPT ![path] = TRUE]
                                ELSE failed_before
            /\ fail_streak' =
                 [fail_streak EXCEPT ![path] =
                    IF accepted THEN 0 ELSE IF failing THEN @ + 1 ELSE @]
            /\ streak_applies' =
                 [streak_applies EXCEPT ![path] =
                    IF accepted THEN 0 ELSE IF failing /\ r.applied THEN @ + 1 ELSE @]
            /\ retried' =
                 [retried EXCEPT ![path] =
                    IF accepted THEN 0
                    ELSE IF r.applied /\ fail_streak[path] >= 1 THEN @ + 1 ELSE @]
            /\ revert_failed_events' = revert_failed_events + r.revert_failed_events
            /\ failed_reverts' = failed_reverts + (IF r.revert = "failed" THEN 1 ELSE 0)
            /\ calls_in_response' = calls_in_response + 1
            /\ tool_results' = collected(tool_results, ToolUseId)
            /\ UNCHANGED <<pc, stop_reason>>
    /\ messages' = ToolUseDrawn
    /\ UNCHANGED <<turn_count, exec_requests, all_turns_tool, fin, probe, result, db,
                   log_file, appended, plan_events, review>>

\* The response has no further tool-use block: the collected results go to
\* the transcript and the loop starts over.
EndTurn ==
    /\ pc = "tools"
    /\ calls_in_response >= 1
    /\ pc' = "loop"
    /\ last' = NoCall
    /\ messages' = Append(messages, ToolResultMessage(tool_results))
    /\ UNCHANGED <<stop_reason, turn_count, tool_call_count, patch_attempt_count,
                   retry_count, created_files, changes, last_errors, fs,
                   calls_in_response, tool_results, exec_requests, all_turns_tool,
                   change_pre, applied_after_fail, failed_before, fail_streak,
                   streak_applies, retried, revert_failed_events, failed_reverts, fin,
                   probe, result, db, log_file, appended, plan_events, review>>

\* ------------------------------------------------------ Agent: finalization

\* The test finalize makes on the answer: response == "y".
keeps_only_when_final_check_passed(final_check, response) ==
    final_check.passed /\ lower(strip(response)) = <<"y">>

keeps_changes(final_check, response) == lower(strip(response)) = <<"y">>

\* What finalize leaves in state.changes when the user keeps them.
changes_left_uncleared(chs) == chs

changes_cleared(chs) == <<>>

\* revert_all: _apply_reverse_diff for each ChangeOp from the last to the
\* first; the working tree afterwards, the paths whose revert failed, and
\* each call made with its result, in the order of the calls.
RevertAttempt(op, success) == [step_id |-> op.step_id, path |-> op.path, success |-> success]

RECURSIVE RevertFrom(_, _, _, _, _)
RevertFrom(chs, i, t, failed_ops, attempts) ==
    IF i = 0
    THEN [fs |-> t, failed_ops |-> failed_ops, attempts |-> attempts]
    ELSE \* op = chs[i]
         LET r == execute(chs[i].path, chs[i].reverse_diff, t) IN
         RevertFrom(chs, i - 1, r.fs,
                    IF r.success THEN failed_ops ELSE Append(failed_ops, chs[i].path),
                    Append(attempts, RevertAttempt(chs[i], r.success)))

\* The same calls made from the first ChangeOp to the last.
RECURSIVE RevertForward(_, _, _, _, _)
RevertForward(chs, i, t, failed_ops, attempts) ==
    IF i > Len(chs)
    THEN [fs |-> t, failed_ops |-> failed_ops, attempts |-> attempts]
    ELSE LET r == execute(chs[i].path, chs[i].reverse_diff, t) IN
         RevertForward(chs, i + 1, r.fs,
                       IF r.success THEN failed_ops ELSE Append(failed_ops, chs[i].path),
                       Append(attempts, RevertAttempt(chs[i], r.success)))

\* The same calls ending at the first one that fails.
RECURSIVE RevertUntilFailure(_, _, _, _)
RevertUntilFailure(chs, i, t, attempts) ==
    IF i = 0
    THEN [fs |-> t, failed_ops |-> <<>>, attempts |-> attempts]
    ELSE LET r == execute(chs[i].path, chs[i].reverse_diff, t) IN
         IF r.success
         THEN RevertUntilFailure(chs, i - 1, r.fs,
                                 Append(attempts, RevertAttempt(chs[i], TRUE)))
         ELSE [fs |-> r.fs, failed_ops |-> <<chs[i].path>>,
               attempts |-> Append(attempts, RevertAttempt(chs[i], FALSE))]

revert_all_in_acceptance_order(chs, t) == RevertForward(chs, 1, t, <<>>, <<>>)

revert_all_stops_at_first_failure(chs, t) == RevertUntilFailure(chs, Len(chs), t, <<>>)

revert_all(chs, t) == RevertFrom(chs, Len(chs), t, <<>>, <<>>)

\* A session reviewed whether or not a change was accepted.
session_has_changes_unchecked(chs) == TRUE

\* run_task: "if state.changes:", and finalize: "if not state.changes".
session_has_changes(chs) == chs # <<>>

\* finalize without an accepted change returns False at once (run_task does
\* not even call it then).
NoChanges ==
    /\ pc = "ended"
    /\ ~session_has_changes(changes)
    /\ pc' = "no_changes"
    /\ fin' = [NoFin EXCEPT !.called = TRUE]
    /\ UNCHANGED <<stop_reason, turn_count, tool_call_count, patch_attempt_count,
                   retry_count, created_files, changes, last_errors, fs,
                   calls_in_response, tool_results, exec_requests, all_turns_tool, last,
                   change_pre, applied_after_fail, failed_before, fail_streak,
                   streak_applies, retried, revert_failed_events, failed_reverts,
                   probe, result, db, log_file, appended,
                   messages, plan_events, review>>

\* finalize has run verify_final and prompted.
Prompted(final_check, response) ==
    [NoFin EXCEPT !.called = TRUE, !.final_check_ran = TRUE,
                  !.final_passed = final_check.passed, !.prompted = TRUE,
                  !.keep = (lower(strip(response)) = <<"y">>)]

\* finalize, the user answering "y": the change list is cleared.
FinalizeKeep ==
    /\ pc = "ended"
    /\ session_has_changes(changes)
    /\ \E types_ok \in BOOLEAN, response \in Responses :
       /\ keeps_changes(verify_final(types_ok), response)
       /\ fin' = [Prompted(verify_final(types_ok), response) EXCEPT !.returned = TRUE]
    /\ pc' = "accepted"
    /\ changes' = changes_cleared(changes)
    /\ change_pre' = <<>>
    /\ UNCHANGED <<stop_reason, turn_count, tool_call_count, patch_attempt_count,
                   retry_count, created_files, last_errors, fs,
                   calls_in_response, tool_results, exec_requests, all_turns_tool, last,
                   applied_after_fail, failed_before, fail_streak, streak_applies, retried,
                   revert_failed_events, failed_reverts, probe, result, db, log_file, appended,
                   messages, plan_events, review>>

\* finalize, the user answering anything else: revert_all, which raises
\* RevertError when some revert failed.
FinalizeRevert ==
    /\ pc = "ended"
    /\ session_has_changes(changes)
    /\ \E r \in {revert_all(changes, fs)} :
       /\ fs' = r.fs
       /\ pc' = IF r.failed_ops = <<>> THEN "reverted" ELSE "revert_error"
       /\ failed_reverts' = failed_reverts + Len(r.failed_ops)
       /\ \E types_ok \in BOOLEAN, response \in Responses :
          /\ ~keeps_changes(verify_final(types_ok), response)
          /\ fin' = [Prompted(verify_final(types_ok), response) EXCEPT
                        !.attempts = r.attempts,
                        !.raised = (r.failed_ops # <<>>),
                        !.failed_ops = r.failed_ops]
    /\ UNCHANGED <<stop_reason, turn_count, tool_call_count, patch_attempt_count,
                   retry_count, created_files, changes, last_errors,
                   calls_in_response, tool_results, exec_requests, all_turns_tool, last,
                   change_pre, applied_after_fail, failed_before, fail_streak,
                   streak_applies, retried, revert_failed_events, probe, result, db, log_file, appended,
                   messages, plan_events, review>>

Next ==
    \/ GetPlan
    \/ \E show_plan \in BOOLEAN, response \in PlanResponses : PlanReview(show_plan, response)
    \/ \E has_tool_use \in BOOLEAN : ModelTurn(has_tool_use)
    \/ \E call \in OtherTools : ExecOtherTool(call)
    \/ \E call \in PatchCalls, lint_ok \in BOOLEAN, tests_ok \in BOOLEAN :
          ExecApplyPatch(call[1], call[2], lint_ok, tests_ok)
    \/ EndTurn
    \/ NoChanges
    \/ FinalizeKeep
    \/ FinalizeRevert

Spec == Init /\ [][Next]_vars

\* The same session with the model sending the diffs of FailingPatchCalls.
NextWithFailingPatches ==
    \/ GetPlan
    \/ \E show_plan \in BOOLEAN, response \in PlanResponses : PlanReview(show_plan, response)
    \/ \E has_tool_use \in BOOLEAN : ModelTurn(has_tool_use)
    \/ \E call \in OtherTools \cup FailingToolCalls : ExecOtherTool(call)
    \/ \E call \in FailingPatchCalls, lint_ok \in BOOLEAN, tests_ok \in BOOLEAN :
          ExecApplyPatch(call[1], call[2], lint_ok, tests_ok)
    \/ EndTurn
    \/ NoChanges
    \/ FinalizeKeep
    \/ FinalizeRevert

SpecWithFailingPatches == Init /\ [][NextWithFailingPatches]_vars

\* The same session run to its end: the program is sequential, and every
\* request, tool execution and prompt returns, so a step that can be taken
\* is taken.
FairSpecWithFailingPatches ==
    SpecWithFailingPatches /\ WF_vars(NextWithFailingPatches)

\* ------------------------------------------------- tool calls run on their own
\* One call of a tool on the initial working tree, outside a session.

ToolInit ==
    /\ AgentInit
    /\ result = NoProbe
    /\ probe \in {[kind |-> "apply_patch", path |-> "a.py", diff |-> d] :
                     d \in DiffInputs \cup {AddTwo, CreateOther}}
               \cup {[kind |-> "run_shell", parsed |-> c.parsed, argv |-> c.argv] :
                        c \in ShellInputs}

\* ApplyPatchTool.execute(path, diff).
ApplyPatchCall ==
    /\ probe.kind = "apply_patch"
    /\ result = NoProbe
    /\ \E r \in {execute(probe.path, probe.diff, fs)} :
       /\ fs' = r.fs
       /\ result' = [kind |-> "apply_patch", success |-> r.success, ran |-> r.ran,
                     reason |-> r.reason, reverse_diff |-> r.reverse_diff]
    /\ UNCHANGED <<pc, stop_reason, turn_count, tool_call_count, patch_attempt_count,
                   retry_count, created_files, changes, last_errors,
                   calls_in_response, tool_results, exec_requests, all_turns_tool, last,
                   change_pre, applied_after_fail, failed_before, fail_streak,
                   streak_applies, retried, revert_failed_events, failed_reverts, fin,
                   probe, db, log_file, appended,
                   messages, plan_events, review>>

\* RunShellTool.execute(command).
RunShellCall ==
    /\ probe.kind = "run_shell"
    /\ result = NoProbe
    /\ \E r \in {run_shell(probe.parsed, probe.argv)} :
       result' = [kind |-> "run_shell", error |-> r.error, spawned |-> r.spawned]
    /\ UNCHANGED <<pc, stop_reason, turn_count, tool_call_count, patch_attempt_count,
                   retry_count, created_files, changes, last_errors, fs,
                   calls_in_response, tool_results, exec_requests, all_turns_tool, last,
                   change_pre, applied_after_fail, failed_before, fail_streak,
                   streak_applies, retried, revert_failed_events, failed_reverts, fin,
                   probe, db, log_file, appended,
                   messages, plan_events, review>>

ToolNext ==
    \/ ApplyPatchCall
    \/ RunShellCall

ToolSpec == ToolInit /\ [][ToolNext]_vars

\* ------------------------------------------------- the RepoMap on its own
\* An index that starts empty, files being indexed, dependencies resolved
\* and affected tests asked for in any order.

AgentVars == <<pc, stop_reason, turn_count, tool_call_count, patch_attempt_count,
               retry_count, created_files, changes, last_errors, fs,
               calls_in_response, tool_results, exec_requests, all_turns_tool, last,
               change_pre, applied_after_fail, failed_before, fail_streak,
               streak_applies, retried, revert_failed_events, failed_reverts, fin,
               messages, plan_events, review>>

\* RepoMap.update_file(file_path, file_hash, imports, timestamp).
UpdateFile(file) ==
    /\ db' = update_file(db, file.path, file.hash, file.imports)
    /\ probe' = [kind |-> "update_file"]
    /\ result' = NoProbe
    /\ UNCHANGED <<AgentVars, log_file, appended>>

\* RepoMap.resolve_dependencies(project_root).
ResolveDependencies ==
    /\ db' = resolve_dependencies(db)
    /\ probe' = [kind |-> "resolve_dependencies"]
    /\ result' = NoProbe
    /\ UNCHANGED <<AgentVars, log_file, appended>>

\* RepoMap.find_affected_tests(modified_files, test_patterns).
FindAffectedTests(modified_files, test_patterns) ==
    /\ probe' = [kind |-> "find_affected_tests", modified_files |-> modified_files,
                 test_patterns |-> test_patterns]
    /\ \E r \in {find_affected_tests(db, modified_files, test_patterns)} :
       result' = [kind |-> "find_affected_tests", raised |-> r.raised, tests |-> r.tests]
    /\ UNCHANGED <<AgentVars, db, log_file, appended>>

RepoNext ==
    \/ \E file \in Indexed : UpdateFile(file)
    \/ ResolveDependencies
    \/ \E modified_files \in ModifiedLists, test_patterns \in PatternLists :
          FindAffectedTests(modified_files, test_patterns)

RepoSpec == Init /\ [][RepoNext]_vars

\* --------------------------------------------- the EventStream on its own
\* A log that starts without its file: events appended, the log read and
\* cleared in any order.

\* EventStream.append(event_type, **data).
AppendEvent(event_type, data) ==
    /\ Len(appended) < MaxAppends
    /\ LET event == [timestamp |-> Clock[Len(appended) + 1], event_type |-> event_type,
                     data |-> data]
       IN /\ log_file' = AppendToLog(log_file, event)
          /\ appended' = Append(appended, event)
    /\ probe' = [kind |-> "append"]
    /\ result' = NoProbe
    /\ UNCHANGED <<AgentVars, db>>

\* EventStream.read_all().
ReadAll ==
    /\ probe' = [kind |-> "read_all"]
    /\ \E r \in {read_all(log_file)} :
       result' = [kind |-> "read_all", raised |-> r.raised, events |-> r.events]
    /\ UNCHANGED <<AgentVars, db, log_file, appended>>

\* EventStream.clear().
ClearEvents ==
    /\ log_file' = ClearLog(log_file)
    /\ appended' = <<>>
    /\ probe' = [kind |-> "clear"]
    /\ result' = NoProbe
    /\ UNCHANGED <<AgentVars, db>>

StreamNext ==
    \/ \E event_type \in EventTypes, data \in EventTexts : AppendEvent(event_type, data)
    \/ ReadAll
    \/ ClearEvents

StreamSpec == Init /\ [][StreamNext]_vars

\* ----------------------------------------- the tests a patch is verified with
\* One verify_patch in a session started by run_task, with or without --full.

\* check_tests(modified_files, full): the pytest run made, if any: the whole
\* suite with full, else the affected tests, or the fallback tests when no
\* test is affected; without any of them nothing runs and the stage passes.
test_selection_without_fallback(full, affected_tests, fallback_tests) ==
    IF full THEN [run |-> TRUE, suite |-> TRUE, files |-> <<>>]
    ELSE IF affected_tests # <<>>
    THEN [run |-> TRUE, suite |-> FALSE, files |-> affected_tests]
    ELSE [run |-> FALSE, suite |-> FALSE, files |-> <<>>]

test_selection(full, affected_tests, fallback_tests) ==
    IF full THEN [run |-> TRUE, suite |-> TRUE, files |-> <<>>]
    ELSE IF affected_tests # <<>>
    THEN [run |-> TRUE, suite |-> FALSE, files |-> affected_tests]
    ELSE IF fallback_tests # <<>>
    THEN [run |-> TRUE, suite |-> FALSE, files |-> fallback_tests]
    ELSE [run |-> FALSE, suite |-> FALSE, files |-> <<>>]

\* run_task: --full sets config.verification.pytest; the Verifier is made of
\* the RepoMap, the test patterns and the fallback tests, and verify_patch
\* calls check_tests([modified_file], full=False).
verification_pytest(full, configured) == full \/ configured

session_test_selection(full, configured, affected_tests, fallback_tests) ==
    LET pytest == verification_pytest(full, configured)
    IN test_selection(FALSE, affected_tests, fallback_tests)

AffectedLists == {<<>>, <<"tests/test_a.py">>, <<"tests/test_a.py", "tests/test_b.py">>}

FallbackLists == {<<>>, <<"tests/test_smoke.py">>}

VerifyInit ==
    /\ AgentInit
    /\ result = NoProbe
    /\ probe \in {[kind |-> "verify_patch", full |-> full, configured |-> configured,
                   file |-> f, lint_ok |-> lint_ok, tests_ok |-> tests_ok,
                   affected_tests |-> affected_tests, fallback_tests |-> fallback_tests] :
                     full \in BOOLEAN, configured \in BOOLEAN,
                     f \in {fs0["a.py"], [fs0["a.py"] EXCEPT !.ln = <<BadSyntax>>]},
                     lint_ok \in BOOLEAN, tests_ok \in BOOLEAN,
                     affected_tests \in AffectedLists, fallback_tests \in FallbackLists}

\* Verifier.verify_patch(modified_file).
VerifyPatchCall ==
    /\ probe.kind = "verify_patch"
    /\ result = NoProbe
    /\ \E tests \in {session_test_selection(probe.full, probe.configured,
                                            probe.affected_tests, probe.fallback_tests)} :
       \E r \in {verify_patch(probe.file, probe.lint_ok, tests.run => probe.tests_ok)} :
          result' = [kind |-> "verify_patch", passed |-> r.passed, stages |-> r.stages,
                     tests |-> tests]
    /\ UNCHANGED <<AgentVars, probe, db, log_file, appended>>

VerifyNext == VerifyPatchCall

VerifySpec == VerifyInit /\ [][VerifyNext]_vars

\* ---------------------------------------------------------------- properties

\* A step in which _execute_patch_with_verification ran.
PatchStep ==
    /\ tool_call_count' = tool_call_count + 1
    /\ last'.tool = "apply_patch"
    /\ last'.outcome # "limit"

\* C1: when a patch to an existing file is applied and verification then
\* fails, the file is back at its content before the patch, changes is
\* unchanged, retry_count[path] has grown by one and last_errors holds the
\* verifier's diagnostics.
C1_VerifyFailureRestores ==
    [][(PatchStep /\ last'.existed /\ last'.apply_success /\ ~last'.passed) =>
          /\ fs'[last'.path] = fs[last'.path]
          /\ changes' = changes
          /\ retry_count'[last'.path] = retry_count[last'.path] + 1
          /\ last_errors' = last'.errors]_vars

\* Every apply_patch call the engine ran was accepted.
AllAccepted ==
    Len(changes) = patch_attempt_count
                   - (IF last.tool = "apply_patch" /\ last.outcome = "limit" THEN 1 ELSE 0)

\* C2: after a session in which every patch was accepted, when the user
\* declines and revert_all has run, the working tree is the pre-session one.
C2_RevertAllRestores ==
    (pc \in {"reverted", "revert_error"} /\ AllAccepted) => fs = fs0

RevertsTo(r, path, pre) == r.success /\ r.fs[path] = pre

\* C3: while the session runs, the reverse diff of every entry of changes
\* applies to the file on disk and gives the content the file had before the
\* entry's forward patch.
C3_RollbackContract ==
    pc \in {"loop", "tools", "ended"} =>
        \A i \in 1..Len(changes) :
            RevertsTo(execute(changes[i].path, changes[i].reverse_diff, fs),
                      changes[i].path, change_pre[i])

\* C4: no counter exceeds its limit: turns, tool calls, patch attempts, and
\* the retries of every path.
C4_CountersBounded ==
    /\ turn_count <= max_turns
    /\ tool_call_count <= max_tool_calls
    /\ patch_attempt_count <= max_patch_attempts
    /\ \A p \in Paths : retry_count[p] <= max_retries_per_patch

C4_Witness ==
    /\ stop_reason = "max_patch_attempts"
    /\ patch_attempt_count = max_patch_attempts
    /\ \E p \in Paths : retry_count[p] = max_retries_per_patch

\* C5: no request is sent once turn_count has reached max_turns, no tool runs
\* once tool_call_count has reached max_tool_calls, no patch is applied once
\* patch_attempt_count has reached max_patch_attempts; and a loop in which
\* every response called a tool, and which neither the tool-call nor the
\* patch-attempt limit stopped, stops for max_turns with turn_count =
\* max_turns and max_turns requests sent.
C5_NoActionPastLimit ==
    /\ [][/\ exec_requests' # exec_requests => turn_count < max_turns
          /\ calls_in_response' = calls_in_response + 1 =>
                tool_call_count' < max_tool_calls
          /\ (PatchStep /\ last'.engine_calls > 0) =>
                patch_attempt_count' < max_patch_attempts]_vars
    /\ []((/\ pc = "ended"
           /\ all_turns_tool
           /\ stop_reason \notin {"max_tool_calls", "max_patch_attempts"}) =>
             /\ stop_reason = "max_turns"
             /\ turn_count = max_turns
             /\ exec_requests = max_turns)

C5_Witness ==
    /\ pc = "ended"
    /\ all_turns_tool
    /\ stop_reason = "max_turns"
    /\ exec_requests = max_turns

\* C5 as stated: whenever every response called a tool, the loop stops for
\* max_turns with turn_count = max_turns and max_turns requests sent.
C5_AlwaysStopsAtMaxTurns ==
    (pc = "ended" /\ all_turns_tool) =>
        /\ stop_reason = "max_turns"
        /\ turn_count = max_turns
        /\ exec_requests = max_turns

\* C6: after a failure on a path, and until a patch on that path is accepted,
\* the engine applies at most max_retries_per_patch further patches to it.
C6_RetriesBounded ==
    \A p \in Paths : retried[p] <= max_retries_per_patch

C6_Witness ==
    \E p \in Paths :
        /\ retried[p] = max_retries_per_patch
        /\ last.path = p
        /\ last.outcome = "apply_failed"

\* C6 as stated: after a failure on a path the engine applies at most
\* max_retries_per_patch further patches to it, whatever follows.
C6_AppliedAfterAnyFailure ==
    \A p \in Paths : applied_after_fail[p] <= max_retries_per_patch

C8_ChangesAreVerified ==
    /\ [](\A i \in 1..Len(changes) : changes[i].reverse_diff # NoDiff)
    /\ [][(changes' # changes /\ pc # "ended") =>
            /\ PatchStep
            /\ last'.apply_success
            /\ last'.passed
            /\ last'.reverse_diff # NoDiff
            /\ changes' = Append(changes,
                                 ChangeOp(last'.path, last'.diff, last'.reverse_diff,
                                          patch_attempt_count'))]_vars
    /\ [][(PatchStep /\ ~(last'.apply_success /\ last'.passed
                          /\ last'.reverse_diff # NoDiff)) =>
            changes' = changes]_vars

C8_Witness ==
    /\ Len(changes) >= 1
    /\ last.tool = "apply_patch"
    /\ last.apply_success
    /\ last.passed
    /\ last.reverse_diff = NoDiff

\* C9: a patch that applied and passed verification, also one that created
\* its file, appends one ChangeOp with step_id = patch_attempt_count, clears
\* retry_count[path], records a new file in created_files and returns the
\* success message.
C9_VerifiedPatchIsRecorded ==
    [][(PatchStep /\ last'.apply_success /\ last'.passed) =>
          /\ changes' = Append(changes,
                               ChangeOp(last'.path, last'.diff, last'.reverse_diff,
                                        patch_attempt_count'))
          /\ retry_count'[last'.path] = 0
          /\ (~last'.existed => last'.path \in created_files')
          /\ last'.text
               = "SUCCESS: Patch applied and verified. Task complete - stop now"]_vars

StageOrder == <<"syntax", "lint", "tests">>

\* C10: the stages verify_patch ran are a prefix of syntax, lint, tests; only
\* the last of them can have failed, and it has when fewer than three ran;
\* the result is passed exactly when no stage that ran failed.
C10_StagesShortCircuit ==
    (last.tool = "apply_patch" /\ last.apply_success) =>
        /\ Len(last.stages) \in 1..3
        /\ \A i \in 1..Len(last.stages) : last.stages[i].stage = StageOrder[i]
        /\ \A i \in 1..(Len(last.stages) - 1) : last.stages[i].passed
        /\ Len(last.stages) < 3 => ~last.stages[Len(last.stages)].passed
        /\ last.passed <=> \A i \in 1..Len(last.stages) : last.stages[i].passed

C10_Witness ==
    /\ last.tool = "apply_patch"
    /\ last.apply_success
    /\ Len(last.stages) = 2
    /\ ~last.stages[2].passed

\* A step in which finalize is called and prompts the user.
FinalizePrompts == ~fin.called /\ fin'.prompted

\* C11: a failing final check (verify_final) causes no revert and changes
\* neither a file nor the change list: whatever the final check reports,
\* the changes are kept, no reverse diff being applied and no file changing,
\* exactly when the user answers keep, and reverted, the change list staying
\* as it was, exactly when the user answers anything else.
C11_FinalCheckOnlyWarns ==
    [][FinalizePrompts =>
         /\ fin'.final_check_ran
         /\ fin'.keep <=> pc' = "accepted"
         /\ fin'.keep => fs' = fs /\ fin'.attempts = <<>>
         /\ ~fin'.keep => /\ pc' \in {"reverted", "revert_error"}
                          /\ changes' = changes
                          /\ Len(fin'.attempts) = Len(changes)]_vars

\* The final check fails, the user answers keep, the changes are kept.
C11_Witness ==
    /\ fin.final_check_ran /\ ~fin.final_passed
    /\ fin.keep
    /\ pc = "accepted"

\* C12: finalize returns true exactly when at least one change was accepted
\* and the user answers keep; then no reverse diff is applied, no file
\* changes and the change list is cleared.  Without an accepted change it
\* returns false, the final check not run and the user not prompted.
C12_FinalizeReturn ==
    [][(~fin.called /\ fin'.called) =>
         /\ fin'.returned <=> (changes # <<>> /\ fin'.keep)
         /\ fin'.returned => /\ fin'.attempts = <<>>
                             /\ fs' = fs
                             /\ changes' = <<>>
         /\ changes = <<>> => /\ ~fin'.returned
                              /\ ~fin'.final_check_ran
                              /\ ~fin'.prompted
                              /\ UNCHANGED <<fs, changes>>]_vars

\* finalize has returned true on a session with two accepted changes.
C12_Witness ==
    /\ fin.returned
    /\ pc = "accepted"
    /\ changes = <<>>
    /\ fs # fs0
    /\ patch_attempt_count >= 2

\* revert_all has run.
Reverted == pc \in {"reverted", "revert_error"}

\* C13: when the user answers revert, revert_all hands the reverse diff of
\* every ChangeOp to _apply_reverse_diff exactly once, the last accepted
\* first: the k-th call is for the k-th ChangeOp from the end.
C13_RevertOrder ==
    Reverted =>
        /\ Len(fin.attempts) = Len(changes)
        /\ \A k \in 1..Len(changes) :
              /\ fin.attempts[k].step_id = changes[Len(changes) + 1 - k].step_id
              /\ fin.attempts[k].path = changes[Len(changes) + 1 - k].path

\* Three changes accepted one after the other have been reverted.
C13_Witness ==
    /\ Reverted
    /\ Len(changes) = 3
    /\ Len(fin.attempts) = 3
    /\ changes[1].step_id < changes[2].step_id
    /\ changes[2].step_id < changes[3].step_id

\* C14: a reverse diff that fails during revert_all does not stop the pass:
\* every ChangeOp is still attempted; RevertError is raised after the pass
\* exactly when some revert failed, and lists exactly the paths of the
\* reverts that failed, in the order they were attempted.
C14_RevertErrorLists ==
    Reverted =>
        /\ Len(fin.attempts) = Len(changes)
        /\ fin.raised <=> \E k \in 1..Len(fin.attempts) : ~fin.attempts[k].success
        /\ fin.raised <=> pc = "revert_error"
        /\ LET failed == SelectSeq(fin.attempts, LAMBDA a : ~a.success) IN
           /\ Len(fin.failed_ops) = Len(failed)
           /\ \A k \in 1..Len(failed) : fin.failed_ops[k] = failed[k].path

\* A revert failed, a later one succeeded, and RevertError names the first.
C14_Witness ==
    /\ pc = "revert_error"
    /\ Len(fin.attempts) >= 2
    /\ ~fin.attempts[1].success
    /\ fin.attempts[2].success
    /\ Len(fin.failed_ops) = 1

\* C15: every failed revert, the one that follows a failed verification as
\* well as one made by revert_all, is in the event stream as a
\* "revert_failed" event: there are as many such events as failed reverts.
C15_FailedRevertsLogged == revert_failed_events = failed_reverts

\* A call of ApplyPatchTool.execute made on its own.
ApplyPatchReturns == probe.kind = "apply_patch" /\ result = NoProbe /\ result' # NoProbe

\* C16: a diff that the validation rejects is never handed to the patch
\* utility: execute returns the rejection reason without success and without
\* a reverse diff, patch is not started, and no file changes.
C16_RejectedNeverPatched ==
    [][(ApplyPatchReturns /\ _validate_patch_with_reason(probe.diff.lines) # "ok") =>
         /\ ~result'.ran
         /\ ~result'.success
         /\ result'.reason = _validate_patch_with_reason(probe.diff.lines)
         /\ result'.reverse_diff = NoDiff
         /\ fs' = fs]_vars

\* A diff rejected for its context that patch would have applied.
C16_Witness ==
    /\ result.kind = "apply_patch"
    /\ result.reason = "insufficient context lines"
    /\ ~result.ran
    /\ fs = fs0
    /\ GnuPatch(fs0[probe.path], probe.diff).ok

\* The tested diff has a lazy placeholder, and it has no "@@" line.
HasLazyPattern(lines) == \E i \in 1..Len(lines) : lines[i].s \in LazyTexts
HasNoHeader(lines) == \A i \in 1..Len(lines) : lines[i].c # "@"

\* Line i starts with a character other than space, "+", "-" and "\" (a
\* "@@" line and an empty line set aside).
BadPrefix(lines, i) == lines[i].c \in {"diff", "other"}

\* Line i comes after a "@@" line, and no line starting with "---", "+++" or
\* "diff" lies between them or is line i itself.
InsideHunk(lines, i) ==
    \E j \in 1..(i - 1) :
       /\ lines[j].c = "@"
       /\ \A k \in (j + 1)..i : lines[k].c \notin {"---", "+++", "diff"}

Rejected == result.kind = "apply_patch" /\ ~result.ran /\ ~result.success
                /\ result.reason \notin {"ok", "Patch failed"}

\* C17: the validation returns a rejection reason for every diff with a lazy
\* placeholder, for every diff without a "@@" line, and for every diff in
\* which a line inside a hunk (after a "@@" line and before the next line
\* starting with "---", "+++" or "diff") starts with a character other than
\* space, "+", "-" and "\".
C17_MalformedRejected ==
    result.kind = "apply_patch" =>
        /\ HasLazyPattern(probe.diff.lines) =>
              Rejected /\ result.reason = "contains lazy placeholder pattern"
        /\ HasNoHeader(probe.diff.lines) => Rejected
        /\ (\E i \in 1..Len(probe.diff.lines) :
               InsideHunk(probe.diff.lines, i) /\ BadPrefix(probe.diff.lines, i))
           => Rejected

\* A diff rejected for a line inside a second hunk, the first being in order.
C17_Witness ==
    /\ result.kind = "apply_patch"
    /\ result.reason = "lines must start with space, +, or -"
    /\ ~HasLazyPattern(probe.diff.lines)
    /\ \E i \in 1..Len(probe.diff.lines) :
          /\ InsideHunk(probe.diff.lines, i) /\ BadPrefix(probe.diff.lines, i)
          /\ \E j \in 1..(i - 1) : probe.diff.lines[j].c \in {"+", "-"}

\* C17 as stated: any line after a "@@" line that starts with such a
\* character has the diff rejected.
C17_AnyLineAfterHeader ==
    result.kind = "apply_patch" =>
        ((\E i \in 1..Len(probe.diff.lines) :
             /\ BadPrefix(probe.diff.lines, i)
             /\ \E j \in 1..(i - 1) : probe.diff.lines[j].c = "@")
         => Rejected)

\* The first character of a diff line.
FirstChar(l) == IF l.c \in {"+", "+++"} THEN "+"
                ELSE IF l.c \in {"-", "---"} THEN "-"
                ELSE l.c

\* The lines from a "@@" line at j to the line before the next "@@" line.
HunkEnd(lines, j) ==
    IF \E k \in (j + 1)..Len(lines) : lines[k].c = "@"
    THEN (CHOOSE k \in (j + 1)..Len(lines) :
             lines[k].c = "@" /\ \A m \in (j + 1)..(k - 1) : lines[m].c # "@") - 1
    ELSE Len(lines)

\* At least three context lines come before the first change of the hunk at
\* j, or after its last change.
ThreeContextLines(lines, j) ==
    LET e == HunkEnd(lines, j)
        changes_at == {k \in (j + 1)..e : FirstChar(lines[k]) \in {"+", "-"}}
        context_at == {k \in (j + 1)..e : FirstChar(lines[k]) = " "}
    IN \/ Cardinality({k \in context_at : \A c \in changes_at : k < c}) >= 3
       \/ Cardinality({k \in context_at : \A c \in changes_at : k > c}) >= 3

\* C18: every diff with a "@@" line, whose lines all start with space, "+",
\* "-" or "\", and whose hunks each have at least three context lines before
\* the first change or after the last one, is accepted by the validation,
\* whatever its lines contain.
C18_SufficientContextAccepted ==
    (/\ result.kind = "apply_patch"
     /\ probe.diff.lines[1].c = "@"
     /\ \A i \in 1..Len(probe.diff.lines) :
           FirstChar(probe.diff.lines[i]) \in {"@", " ", "+", "-", "\\"}
     /\ \A j \in 1..Len(probe.diff.lines) :
           probe.diff.lines[j].c = "@" => ThreeContextLines(probe.diff.lines, j))
    => result.ran

\* An apply_patch call whose DiffEngine application reports failure.
ApplyFails == PatchStep /\ last'.outcome = "apply_failed"

\* C19: when the application of a patch reports failure (the validation
\* rejects the diff, or patch fails on a hunk), the file keeps its content,
\* the retry count of the path goes up by one, the verifier does not run and
\* no ChangeOp is recorded.
C19_ApplyFailureFrame ==
    [][ApplyFails =>
         /\ fs' = fs
         /\ retry_count' = [retry_count EXCEPT ![last'.path] = @ + 1]
         /\ last'.stages = <<>>
         /\ changes' = changes]_vars

\* The conditions on a command line: it parses, its program is in the
\* allow-list, each argument starting with "-" is an allowed flag of that
\* program, and no other argument contains ".." or starts with "/".
CommandAllowed(parsed, argv) ==
    /\ parsed
    /\ argv # <<>>
    /\ argv[1].text \in DOMAIN ALLOWED_PROGRAMS
    /\ \A i \in 2..Len(argv) :
          IF argv[i].dash
          THEN argv[i].text \in ALLOWED_PROGRAMS[argv[1].text]
          ELSE ~argv[i].dotdot /\ ~argv[i].slash

\* C20: run_shell starts a subprocess only if the program is in the
\* allow-list, every flag is an allowed flag of that program, and no
\* positional argument contains ".." or starts with "/"; otherwise it returns
\* an error and starts no process.
C20_ShellAllowList ==
    result.kind = "run_shell" =>
        /\ result.spawned => CommandAllowed(probe.parsed, probe.argv)
        /\ ~CommandAllowed(probe.parsed, probe.argv) =>
              ~result.spawned /\ result.error # "none"

\* An allowed command with a flag and a path has started, and the same
\* command with a path leading out of the repository would not have.
C20_Witness ==
    /\ result.kind = "run_shell"
    /\ result.spawned
    /\ Len(probe.argv) = 3
    /\ probe.argv[2].dash
    /\ ~probe.argv[3].dash
    /\ \E a \in Args : a.dotdot /\ ~a.dash
                       /\ ~run_shell(TRUE, <<probe.argv[1], probe.argv[2], a>>).spawned

\* C21: through run_shell git is only ever started as a read-only query:
\* every git command line for which a subprocess is started has its
\* subcommand, the word after "git", in {status, diff, log, show}.
C21_GitReadOnly ==
    (result.kind = "run_shell" /\ result.spawned /\ probe.argv[1].text = "git")
    => /\ Len(probe.argv) >= 2
       /\ probe.argv[2].text \in {"status", "diff", "log", "show"}

\* The files with a dependency edge to a modified file, and the paths that
\* hold a test pattern as a substring.
DirectDependents(modified_files) ==
    {p \in RepoPaths : \E t \in SeqRange(db.dependencies[p]) : t \in SeqRange(modified_files)}

IsTestPath(p, test_patterns) == \E pattern \in SeqRange(test_patterns) : Contains(p, pattern)

\* C22: find_affected_tests(modified, patterns) returns, sorted and without
\* duplicates, exactly the files that have a direct dependency edge to a
\* modified file and hold a pattern as a substring of their path, together
\* with the modified files that hold a pattern themselves; a file related to
\* a modified file only through a chain of imports is not returned.
C22_AffectedTests ==
    result.kind = "find_affected_tests"
    => /\ ~result.raised
       /\ \A i \in 1..(Len(result.tests) - 1) : StrLess(result.tests[i], result.tests[i + 1])
       /\ SeqRange(result.tests) =
            {p \in DirectDependents(probe.modified_files) :
                IsTestPath(p, probe.test_patterns)}
            \cup {f \in SeqRange(probe.modified_files) : IsTestPath(f, probe.test_patterns)}

\* The target the import of a module resolves to: the single-file form when
\* it is indexed, else the package form when that is indexed.
ResolvesTo(imported_module, t) ==
    /\ t \in IndexedFiles(db)
    /\ \/ t = ModulePath(imported_module) \o PY
       \/ /\ t = ModulePath(imported_module) \o INIT_PY
          /\ ModulePath(imported_module) \o PY \notin IndexedFiles(db)

\* C23: after upserts followed by resolve, every edge points at an indexed
\* file and the edges are those the current files and imports give, none
\* surviving from before, so that resolving again changes nothing.
C23_ResolveRegenerates ==
    probe.kind = "resolve_dependencies"
    => /\ \A s \in RepoPaths : \A t \in SeqRange(db.dependencies[s]) : t \in IndexedFiles(db)
       /\ \A s \in RepoPaths :
             SeqRange(db.dependencies[s]) =
                {t \in RepoPaths : \E mod \in SeqRange(db.imports[s]) : ResolvesTo(mod, t)}
       /\ resolve_dependencies(db) = db

\* t/x.py imports p, the package p and the module p.py are both indexed, and
\* the resolve just made has given t/x.py its edge to p.py.
C23_Witness ==
    /\ probe.kind = "resolve_dependencies"
    /\ db.files[<<"p">> \o INIT_PY] # NoRow
    /\ db.dependencies[<<"t", "/", "x">> \o PY] = <<<<"p">> \o PY>>

\* C24: whatever was appended to the event log, read_all returns exactly
\* those events in the order of writing, with equal event_type and data; an
\* append leaves the events written before it as they were and in their
\* order; after clear, read_all returns no event.
C24_LogRoundTrip ==
    /\ result.kind = "read_all"
       => /\ ~result.raised
          /\ Len(result.events) = Len(appended)
          /\ \A i \in 1..Len(appended) :
                /\ result.events[i].event_type = appended[i].event_type
                /\ result.events[i].data = appended[i].data
    /\ probe.kind = "append"
       => /\ ~read_all(log_file).raised
          /\ SubSeq(read_all(log_file).events, 1, Len(appended) - 1)
                = SubSeq(appended, 1, Len(appended) - 1)
    /\ probe.kind = "clear" => read_all(log_file) = [raised |-> FALSE, events |-> <<>>]

\* Three events were read back, the second holding newlines and the third
\* a quote in its data.
C24_Witness ==
    /\ result.kind = "read_all"
    /\ Len(result.events) = MaxAppends
    /\ result.events[2].data = <<"a", "\n", "b", "\n">>
    /\ result.events[3].data = <<"\"", "}", "}">>

\* The phase a session is in.  Reviewing is passed through within the step
\* of finalize that prompts.
Phase(p, reason) ==
    CASE p = "init" -> "Init"
      [] p = "planning" -> "Planning"
      [] p \in {"loop", "tools"} -> "Executing"
      [] p = "ended" /\ reason = "complete" -> "ModelComplete"
      [] p = "ended" /\ reason # "complete" -> "LimitReached"
      [] p = "accepted" -> "Accepted"
      [] p = "reverted" -> "Reverted"
      [] OTHER -> p

\* The moves from one phase to the next, and the ends a session comes to
\* otherwise by an error raised: a tool call, or a revert that fails.
PhaseMoves ==
    {<<"Init", "Planning">>, <<"Planning", "Executing">>,
     <<"Executing", "LimitReached">>, <<"Executing", "ModelComplete">>,
     <<"LimitReached", "Accepted">>, <<"LimitReached", "Reverted">>,
     <<"ModelComplete", "Accepted">>, <<"ModelComplete", "Reverted">>}

RaisedMoves ==
    {<<"Executing", "raised">>, <<"LimitReached", "revert_error">>,
     <<"ModelComplete", "revert_error">>}

PhaseChanges == Phase(pc', stop_reason') # Phase(pc, stop_reason)

ReviewedInStep == pc = "ended" /\ fin'.prompted /\ ~fin.prompted

\* C25 as stated: every session moves only along Init -> Planning ->
\* Executing -> (LimitReached | ModelComplete) -> Reviewing -> (Accepted |
\* Reverted), and every session that ends without an error ends in Accepted
\* or Reverted.
C25_SessionPhases ==
    /\ [][PhaseChanges =>
            /\ <<Phase(pc, stop_reason), Phase(pc', stop_reason')>>
                  \in PhaseMoves \cup RaisedMoves
            /\ pc' \in {"accepted", "reverted", "revert_error"} <=> ReviewedInStep]_vars
    /\ [](pc \notin {"aborted", "no_changes"})

\* C25: every session moves only along Init -> Planning -> Executing ->
\* (LimitReached | ModelComplete) -> Reviewing -> (Accepted | Reverted), with
\* two more ends: a session whose plan is turned down ends after Planning,
\* and a session whose turn loop ended without an accepted change ends
\* without Reviewing.  Executing is entered only after Planning, Reviewing
\* only after the loop ended by a limit or by a response without tool use and
\* with an accepted change, and a session that ends without an error after
\* Reviewing ends in Accepted or Reverted.
C25_SessionPhasesAmended ==
    /\ [][PhaseChanges =>
            /\ <<Phase(pc, stop_reason), Phase(pc', stop_reason')>>
                  \in PhaseMoves \cup RaisedMoves
                      \cup {<<"Planning", "aborted">>, <<"LimitReached", "no_changes">>,
                            <<"ModelComplete", "no_changes">>}
            /\ pc' \in {"accepted", "reverted", "revert_error"} <=> ReviewedInStep
            /\ ReviewedInStep => changes # <<>>
            /\ pc' = "no_changes" => changes = <<>>
            /\ pc' = "aborted" => review'.show_plan]_vars
    /\ [](fin.prompted => pc \in {"accepted", "reverted", "revert_error"})

\* A session ended without Reviewing: the model answered without a tool use
\* and no change had been accepted.
C25_Witness ==
    /\ pc = "no_changes"
    /\ stop_reason = "complete"
    /\ ~fin.prompted

\* The replies that read "n".
Declines == {<<"n">>, <<" ", "N", " ">>}

\* C26: with plan review requested, the reply n (whatever its case and the
\* blanks around it) ends the session before the turn loop: no EXECUTE
\* request is sent, no tool runs, no file changes and changes stays empty;
\* any other reply goes on to the turn loop; the plan event has been logged
\* in both cases.
C26_PlanRejection ==
    /\ [][/\ pc = "planning" =>
                /\ plan_events = 1 /\ plan_events' = 1
                /\ review'.made
                /\ pc' = IF review'.show_plan /\ review'.response \in Declines
                         THEN "aborted" ELSE "loop"
          /\ pc # "aborted"]_vars
    /\ [](pc = "aborted" => /\ exec_requests = 0 /\ tool_call_count = 0
                            /\ fs = fs0 /\ changes = <<>> /\ messages = <<>>)

\* The plan was shown and turned down.
C26_Witness ==
    /\ pc = "aborted"
    /\ review.show_plan
    /\ review.response = <<" ", "N", " ">>
    /\ plan_events = 1

\* C28: in the turn loop every tool invocation, whatever its outcome, gives
\* a tool result that is collected for the model; no failure of a tool
\* raises out of the loop.
C28_ToolFailuresCaptured ==
    [][(pc = "tools" /\ tool_call_count' = tool_call_count + 1
        /\ last'.outcome # "limit")
       => /\ pc' # "raised"
          /\ Len(tool_results') = Len(tool_results) + 1]_vars

\* The last assistant message of the transcript.
LastMessage(msgs) == msgs[Len(msgs)]

\* C29: the tools of one response run one after the other in the order of
\* its tool-use blocks, the result of each being collected before the next
\* block is reached, and in every tool-result message appended to the
\* transcript the i-th result names the id of the i-th tool-use block of
\* the assistant message just before it.
C29_ResultsInOrder ==
    [][/\ (pc = "tools" /\ tool_results' # tool_results /\ pc' = "tools")
          => /\ Len(tool_results') = Len(tool_results) + 1
             /\ Len(LastMessage(messages').ids) = Len(tool_results')
             /\ \A i \in 1..Len(tool_results') :
                   tool_results'[i] = LastMessage(messages').ids[i]
       /\ (Len(messages') = Len(messages) + 1
           /\ LastMessage(messages').content = "tool_result")
          => /\ LastMessage(messages).role = "assistant"
             /\ Len(LastMessage(messages').ids) = Len(LastMessage(messages).ids)
             /\ \A i \in 1..Len(LastMessage(messages).ids) :
                   LastMessage(messages').ids[i] = LastMessage(messages).ids[i]]_vars

\* The second response had three tool-use blocks and its three results are
\* in the transcript.
C29_Witness ==
    /\ Len(messages) = 5
    /\ messages[5].content = "tool_result"
    /\ Len(messages[5].ids) = MaxCallsPerResponse
    /\ messages[4].role = "assistant"

\* C30: in every turn, however it ends, the tool results collected, if any,
\* are appended to the transcript as one user message; also when a later
\* tool call of the same response reaches a limit.
C30_ResultsAppended ==
    [][(pc = "tools" /\ pc' # "tools" /\ tool_results # <<>>)
       => /\ Len(messages') = Len(messages) + 1
          /\ LastMessage(messages') = ToolResultMessage(tool_results)]_vars

\* C27: in a session run with --full, the test stage of every verify_patch
\* runs the whole test suite, not the affected or the fallback tests only.
C27_FullRunsWholeSuite ==
    (/\ result.kind = "verify_patch"
     /\ probe.full
     /\ \E i \in 1..Len(result.stages) : result.stages[i].stage = "tests")
    => result.tests.run /\ result.tests.suite

\* Event type a is written once in the events of a call.
WrittenOnce(events, a) == Cardinality({i \in DOMAIN events : events[i] = a}) = 1

\* Every event of type a is written before every event of type b.
WrittenBefore(events, a, b) ==
    \A i, j \in DOMAIN events : events[i] = a /\ events[j] = b => i < j

\* A step of the turn loop that executed a tool call to its return.
ToolExecuted ==
    /\ tool_call_count' = tool_call_count + 1
    /\ last'.outcome \notin {"limit", "raised"}

\* C31: events are written in occurrence order: the plan event is written
\* before every tool event, each executed tool call has exactly one tool_call
\* event and one tool_result event, and its tool_call event is written before
\* its tool_result event and before any revert_failed event raised while the
\* call executes.
C31_EventsInOrder ==
    [][ToolExecuted =>
         /\ plan_events >= 1
         /\ WrittenOnce(last'.events, "tool_call")
         /\ WrittenOnce(last'.events, "tool_result")
         /\ WrittenBefore(last'.events, "tool_call", "tool_result")
         /\ WrittenBefore(last'.events, "tool_call", "revert_failed")]_vars

\* The changes and the context lines of the hunk whose "@@" line is line j.
ChangesAt(lines, j) ==
    {k \in (j + 1)..HunkEnd(lines, j) : FirstChar(lines[k]) \in {"+", "-"}}

ContextAt(lines, j) ==
    {k \in (j + 1)..HunkEnd(lines, j) : FirstChar(lines[k]) = " "}

LeadingContext(lines, j) ==
    Cardinality({k \in ContextAt(lines, j) : \A c \in ChangesAt(lines, j) : k < c})

TrailingContext(lines, j) ==
    Cardinality({k \in ContextAt(lines, j) : \A c \in ChangesAt(lines, j) : k > c})

\* The context of the hunk at j is sufficient: a file-creation header, three
\* context lines before the first change or after the last one, or no
\* deletion and one leading context line.
ContextSufficient(lines, j) ==
    \/ IsCreationHeader(lines[j])
    \/ LeadingContext(lines, j) >= 3
    \/ TrailingContext(lines, j) >= 3
    \/ /\ \A k \in ChangesAt(lines, j) : FirstChar(lines[k]) # "-"
       /\ LeadingContext(lines, j) >= 1

\* A diff that starts with a "@@" line, has no lazy placeholder, and whose
\* lines all start with space, "+", "-" or "\".
WellFormedDiff(lines) ==
    /\ lines[1].c = "@"
    /\ ~HasLazyPattern(lines)
    /\ \A i \in 1..Len(lines) : FirstChar(lines[i]) \in {"@", " ", "+", "-", "\\"}

\* C32: a well-formed diff is rejected for insufficient context if and only
\* if one of its hunks has neither a file-creation header, nor three context
\* lines before its first change, nor three after its last change, nor one
\* leading context line and no deletion.
C32_ContextPredicate ==
    (result.kind = "apply_patch" /\ WellFormedDiff(probe.diff.lines))
    => (result.reason = "insufficient context lines"
        <=> \E j \in 1..Len(probe.diff.lines) :
               /\ probe.diff.lines[j].c = "@"
               /\ ~ContextSufficient(probe.diff.lines, j))

\* A step in which revert_all runs.
RevertAllRuns == pc = "ended" /\ pc' \in {"reverted", "revert_error"}

\* The ChangeOps of chs whose reverse diff revert_all did not apply with
\* success, attempts being the calls it made.
NotReverted(chs, attempts) ==
    SelectSeq(chs, LAMBDA op :
                     ~\E k \in 1..Len(attempts) :
                         attempts[k].step_id = op.step_id /\ attempts[k].success)

\* C33: a ChangeOp is created only when a patch is accepted after a passed
\* verification, and ChangeOps leave the change list only by a revert_all,
\* which removes the ChangeOps it reverted; no other operation, the keep of
\* finalize included, removes one.
C33_ChangeOpsLeaveByRevertOnly ==
    [][/\ RevertAllRuns => changes' = NotReverted(changes, fin'.attempts)
       /\ ~RevertAllRuns =>
            \/ changes' = changes
            \/ /\ last'.outcome = "accepted" /\ last'.passed
               /\ Len(changes') = Len(changes) + 1
               /\ SubSeq(changes', 1, Len(changes)) = changes
               /\ changes'[Len(changes')].path = last'.path]_vars

\* The test stage of the verify_patch made, if the stage was reached.
TestStage ==
    IF result.kind = "verify_patch"
    THEN SelectSeq(result.stages, LAMBDA st : st.stage = "tests")
    ELSE <<>>

\* C34: the test stage of verify_patch runs the test runner on the affected
\* tests when there are some, otherwise on the configured fallback tests when
\* there are some, and otherwise runs nothing and passes.
C34_TestStageSelection ==
    TestStage # <<>> =>
        /\ probe.affected_tests # <<>> =>
              /\ result.tests.run /\ ~result.tests.suite
              /\ result.tests.files = probe.affected_tests
        /\ (probe.affected_tests = <<>> /\ probe.fallback_tests # <<>>) =>
              /\ result.tests.run /\ ~result.tests.suite
              /\ result.tests.files = probe.fallback_tests
        /\ (probe.affected_tests = <<>> /\ probe.fallback_tests = <<>>) =>
              /\ ~result.tests.run
              /\ TestStage[1].passed

\* No test is affected and the fallback tests were run, and failed.
C34_Witness ==
    /\ TestStage # <<>>
    /\ probe.affected_tests = <<>>
    /\ result.tests.run
    /\ result.tests.files = probe.fallback_tests
    /\ ~TestStage[1].passed

\* The files whose content is not the content before the session.
ModifiedPaths == {p \in Paths : fs[p] # fs0[p]}

\* C35: whenever the turn loop has ended, every file whose content differs
\* from its content before the session, a file that did not exist included,
\* is the path of a ChangeOp of the change list, so that no apply_patch
\* leaves a modification that finalization cannot revert.
C35_ModificationsRecorded ==
    pc = "ended" =>
        \A p \in ModifiedPaths : \E i \in 1..Len(changes) : changes[i].path = p

\* C36: the validation is closed under reversal: the reverse diff generated
\* from a diff the validation accepts is accepted by the validation too, so
\* that a revert is never rejected by the validator.
C36_ReverseDiffAccepted ==
    (result.kind = "apply_patch" /\ result.ran) =>
        \A rev \in {_generate_reverse_diff(probe.path, fs0[probe.path].ex,
                                           probe.diff.lines)} :
           rev # NoDiff => _validate_patch_with_reason(rev.lines) = "ok"

\* C37: the tool result "Patch reverted due to verification failure" is
\* returned to the model only when the reverse diff was applied with success,
\* that is only when the file is back at its content before the patch.
C37_RevertReportTruthful ==
    [][(PatchStep /\ last'.text = "Patch reverted due to verification failure") =>
          /\ last'.revert = "ok"
          /\ fs'[last'.path] = last'.pre]_vars

\* C38: apply_patch(path, diff) changes the content of no file other than
\* path, and the reverse diff it returns is for the file it modified, also
\* when the diff carries "---"/"+++" headers of its own.
C38_SingleFileEffect ==
    result.kind = "apply_patch" =>
        /\ \A p \in Paths \ {probe.path} : fs[p] = fs0[p]
        /\ result.success =>
              \A p \in ModifiedPaths : result.reverse_diff.target = p

\* C39: the turn limit only prevents further model requests: it stops the
\* loop between two requests and never at a tool call, so that the tool calls
\* of the last response requested are executed unless max_tool_calls or
\* max_patch_attempts is reached, and no tool call is counted without being
\* executed when the turn limit stops the loop.
C39_TurnLimitScope ==
    [][(pc # "ended" /\ pc' = "ended" /\ stop_reason' = "max_turns") =>
          /\ pc = "loop"
          /\ last'.outcome # "limit"
          /\ tool_call_count' = tool_call_count]_vars

\* The session is over: the plan was turned down, finalize has returned or
\* raised RevertError, there was nothing to review, or a tool call raised.
Terminated ==
    pc \in {"aborted", "no_changes", "accepted", "reverted", "revert_error", "raised"}

\* C40: every run terminates, provided every model request, tool execution
\* and user prompt returns: the turn loop ends after at most max_turns
\* requests whatever the model answers, and revert_all ends after exactly
\* len(changes) applications of a reverse diff.
C40_Termination ==
    /\ <>Terminated
    /\ [](exec_requests <= max_turns)
    /\ [][RevertAllRuns => Len(fin'.attempts) = Len(changes)]_vars

\* max_turns requests were made and revert_all has run over the changes.
C40_Witness ==
    /\ Terminated
    /\ exec_requests = max_turns
    /\ pc \in {"reverted", "revert_error"}
    /\ Len(changes) >= 1
    /\ Len(fin.attempts) = Len(changes)

====
